---- MODULE Spec2Model ----
(***************************************************************************)
(* Authorization middleware of go-aserto: the request pipeline             *)
(* (resolve policy path, resource and identity; one backend decision call; *)
(* enforcement) of the HTTP and gRPC middlewares, and the identity         *)
(* builder.  Strings are sequences of one-character strings so that        *)
(* trimming, splitting, joining and lower-casing are computed as the Go    *)
(* code computes them.                                                     *)
(***************************************************************************)
EXTENDS Naturals, Integers, Sequences, FiniteSets, TLC

\* ------------------------------------------------------------------ bounds

\* Requests served by one middleware under Spec.
NReq == 1
\* Requests served concurrently under SpecConc.
NConc == 2
\* Longest list of decisions the backend returns.
MaxDecisions == 2
\* Messages exchanged on one authorized stream.
MaxMsgs == 1
\* Identities built from one builder under SpecIdentity.
MaxBuilds == 2
\* Filters registered on one check middleware.
MaxFilters == 1

Max(a, b) == IF a > b THEN a ELSE b

Reqs == 1..Max(NReq, NConc)

\* ----------------------------------------------------------------- strings

Empty == << >>

\* strings.ToLower on the alphabet the model uses.
LowerChar(c) ==
    CASE c = "S" -> "s"
      [] c = "M" -> "m"
      [] c = "G" -> "g"
      [] c = "E" -> "e"
      [] c = "T" -> "t"
      [] OTHER -> c

ToLower(s) == [i \in 1..Len(s) |-> LowerChar(s[i])]

RECURSIVE TrimLeft(_, _)
TrimLeft(s, c) ==
    IF s # Empty /\ Head(s) = c THEN TrimLeft(Tail(s), c) ELSE s

RECURSIVE TrimRight(_, _)
TrimRight(s, c) ==
    IF s # Empty /\ s[Len(s)] = c THEN TrimRight(SubSeq(s, 1, Len(s) - 1), c) ELSE s

\* strings.Trim(s, c) for a one-character cutset.
Trim(s, c) == TrimRight(TrimLeft(s, c), c)

\* strings.ReplaceAll(s, a, b) for one-character a and b.
ReplaceAll(s, a, b) == [i \in 1..Len(s) |-> IF s[i] = a THEN b ELSE s[i]]

\* strings.Split(s, sep) for a one-character separator: always at least one
\* segment, the empty string included.
RECURSIVE Split(_, _)
Split(s, sep) ==
    IF \E i \in 1..Len(s) : s[i] = sep
    THEN LET i == CHOOSE j \in 1..Len(s) :
                      s[j] = sep /\ \A k \in 1..(j - 1) : s[k] # sep
         IN  <<SubSeq(s, 1, i - 1)>> \o Split(SubSeq(s, i + 1, Len(s)), sep)
    ELSE <<s>>

\* strings.Join(segs, sep).
RECURSIVE Join(_, _)
Join(segs, sep) ==
    IF segs = << >> THEN Empty
    ELSE IF Len(segs) = 1 THEN segs[1]
    ELSE segs[1] \o <<sep>> \o Join(Tail(segs), sep)

\* internal.ToPolicyPath
ToPolicyPath(path) == ReplaceAll(Trim(path, "/"), "/", ".")

\* internal.Lookup.Contains; a nil Lookup is the empty set.
Contains(lookup, item) == item \in lookup

\* ---------------------------------------------------------------- identity

\* api.IdentityType; a zero-valued builder holds UNKNOWN.
IdentityTypes == {"UNKNOWN", "NONE", "SUB", "JWT", "MANUAL"}

\* A string made of one token.
Str(tok) == <<tok>>

\* The tokens jwt.ParseString accepts, with the sub claim of each.
JwtTokens == {"jwt:bob"}
JwtSubject(tok) == IF tok = "jwt:bob" THEN Str("bob") ELSE Empty

\* strings.TrimPrefix(value, "Bearer"), "Bearer" being one token.
TrimPrefixBearer(value) ==
    IF value # Empty /\ Head(value) = "Bearer" THEN Tail(value) ELSE value

\* strings.TrimSpace
TrimSpace(value) == Trim(value, " ")

\* internal.NewIdentity
NewIdentity(identityType, identity) ==
    [type |-> identityType, identity |-> identity]

\* internal.Identity.None
IdentityNone(id) == [type |-> "NONE", identity |-> Empty]

\* internal.Identity.ID
IdentityID(id, identity) == [id EXCEPT !.identity = identity]

\* internal.Identity.Context
IdentityContext(id) == IF id.identity = Empty THEN IdentityNone(id) ELSE id

\* internal.ValueOrEmpty: the context value when it is a string, else "".
ValueOrEmpty(v) == IF v.present /\ v.isString THEN v.str ELSE Empty

\* internal.hostnameSegment
HostnameSegment(hostname, index) ==
    LET parts == Split(hostname, ".")
        idx   == IF index < 0 THEN index + Len(parts) ELSE index
    IN  IF idx >= 0 /\ idx < Len(parts) THEN parts[idx + 1] ELSE Empty

\* strings.EqualFold(h, "authorization") on the header names of the model.
IsAuthorizationHeader(h) == h \in {"Authorization", "authorization"}

\* IdentityBuilder.fromAuthzHeader
fromAuthzHeader(b, value) ==
    LET v == TrimSpace(TrimPrefixBearer(value))
    IN  IF b.identityType = "SUB" /\ Len(v) = 1 /\ v[1] \in JwtTokens
        THEN JwtSubject(v[1])
        ELSE v

NilMapper == [kind |-> "nil", headers |-> << >>, segment |-> 0, callback |-> "none"]

\* The zero IdentityBuilder, &IdentityBuilder{}.
NewBuilder == [identityType |-> "UNKNOWN", defaultIdentity |-> Empty, mapper |-> NilMapper]

\* IdentityBuilder.JWT / Subject / Manual
BuilderJWT(b) == [b EXCEPT !.identityType = "JWT"]
BuilderSubject(b) == [b EXCEPT !.identityType = "SUB"]
BuilderManual(b) == [b EXCEPT !.identityType = "MANUAL"]

\* IdentityBuilder.None
BuilderNone(b) == [b EXCEPT !.identityType = "NONE", !.defaultIdentity = Empty]

\* IdentityBuilder.ID
BuilderID(b, identity) == [b EXCEPT !.defaultIdentity = identity]

\* IdentityBuilder.FromHeader
FromHeader(b, headers) ==
    [b EXCEPT !.mapper = [kind |-> "header", headers |-> headers, segment |-> 0, callback |-> "none"]]

\* IdentityBuilder.FromMetadata (gRPC); the field is kept in headers.
FromMetadata(b, field) ==
    [b EXCEPT !.mapper = [kind |-> "metadata", headers |-> <<field>>, segment |-> 0, callback |-> "none"]]

\* IdentityBuilder.FromContextValue
FromContextValue(b) ==
    [b EXCEPT !.mapper = [kind |-> "ctx", headers |-> << >>, segment |-> 0, callback |-> "none"]]

\* IdentityBuilder.FromHostname
FromHostname(b, segment) ==
    [b EXCEPT !.mapper = [kind |-> "hostname", headers |-> << >>, segment |-> segment, callback |-> "none"]]

\* The callbacks given to IdentityBuilder.Mapper: one that sets the kind and
\* the value of the identity, one that sets the value alone, one that
\* leaves the identity as it receives it.
Callbacks == {"manualID", "ID", "nothing"}

\* IdentityBuilder.Mapper
BuilderMapper(b, callback) ==
    [b EXCEPT !.mapper = [kind |-> "custom", headers |-> << >>, segment |-> 0,
                          callback |-> callback]]

\* The call b.mapper(r, identity) of a callback given to Mapper.
customMapper(b, id) ==
    CASE b.mapper.callback = "manualID" -> IdentityID([id EXCEPT !.type = "MANUAL"], Str("mapped"))
      [] b.mapper.callback = "ID" -> IdentityID(id, Str("mapped"))
      [] OTHER -> id

\* The first configured header with a non-empty value, 0 when there is none.
RECURSIVE FirstHeader(_, _, _)
FirstHeader(headers, env, i) ==
    IF i > Len(headers) THEN 0
    ELSE IF env.header[headers[i]] # Empty THEN i
    ELSE FirstHeader(headers, env, i + 1)

\* headerMapper going through all the configured headers: the last
\* non-empty one is the one left in the identity.
RECURSIVE LastHeader(_, _, _)
LastHeader(headers, env, i) ==
    IF i = 0 THEN 0
    ELSE IF env.header[headers[i]] # Empty THEN i
    ELSE LastHeader(headers, env, i - 1)

headerMapperLast(b, env, id) ==
    LET i == LastHeader(b.mapper.headers, env, Len(b.mapper.headers))
    IN  IF i = 0 THEN IdentityNone(id)
        ELSE LET h == b.mapper.headers[i]
                 v == env.header[h]
             IN  IdentityID(id, IF IsAuthorizationHeader(h) THEN fromAuthzHeader(b, v) ELSE v)

\* The mapper closure installed by FromHeader.
headerMapper(b, env, id) ==
    LET i == FirstHeader(b.mapper.headers, env, 1)
    IN  IF i = 0 THEN IdentityNone(id)
        ELSE LET h == b.mapper.headers[i]
                 v == env.header[h]
             IN  IdentityID(id, IF IsAuthorizationHeader(h) THEN fromAuthzHeader(b, v) ELSE v)

\* The mapper closure installed by FromMetadata: untouched when the field is
\* missing from the incoming metadata.
metadataMapper(b, env, id) ==
    LET vals == env.md[b.mapper.headers[1]]
    IN  IF env.hasMd /\ Len(vals) > 0
        THEN IdentityID(id, fromAuthzHeader(b, vals[1]))
        ELSE id

\* The mapper closure installed by FromContextValue.  humaz calls b.ID, which
\* stores the value on the builder and leaves the identity being built alone;
\* the other packages call identity.ID.
contextValueMapper(variant, b, env, id) ==
    IF variant = "humaz"
    THEN [id |-> id, b |-> BuilderID(b, ValueOrEmpty(env.ctxValue))]
    ELSE [id |-> IdentityID(id, ValueOrEmpty(env.ctxValue)), b |-> b]

\* Build with a callback given to Mapper called on a fresh identity, the
\* kind and the static ID of the builder left out.
BuildMapperAlone(variant, b, env) ==
    LET id0 == NewIdentity(b.identityType, b.defaultIdentity)
        r   == CASE b.mapper.kind = "nil" -> [id |-> id0, b |-> b]
                 [] b.mapper.kind = "header" -> [id |-> headerMapper(b, env, id0), b |-> b]
                 [] b.mapper.kind = "metadata" -> [id |-> metadataMapper(b, env, id0), b |-> b]
                 [] b.mapper.kind = "ctx" -> contextValueMapper(variant, b, env, id0)
                 [] b.mapper.kind = "hostname" ->
                      [id |-> IdentityID(id0, HostnameSegment(env.host, b.mapper.segment)),
                       b |-> b]
                 [] OTHER -> [id |-> customMapper(b, NewIdentity("UNKNOWN", Empty)), b |-> b]
    IN  [ctx |-> IdentityContext(r.id), b |-> r.b]

\* IdentityBuilder.Build / build: the identity context sent to the
\* authorizer, and the builder as the call leaves it.
Build(variant, b, env) ==
    LET id0 == NewIdentity(b.identityType, b.defaultIdentity)
        r   == CASE b.mapper.kind = "nil" -> [id |-> id0, b |-> b]
                 [] b.mapper.kind = "header" -> [id |-> headerMapper(b, env, id0), b |-> b]
                 [] b.mapper.kind = "metadata" -> [id |-> metadataMapper(b, env, id0), b |-> b]
                 [] b.mapper.kind = "ctx" -> contextValueMapper(variant, b, env, id0)
                 [] b.mapper.kind = "hostname" ->
                      [id |-> IdentityID(id0, HostnameSegment(env.host, b.mapper.segment)),
                       b |-> b]
                 [] OTHER -> [id |-> customMapper(b, id0), b |-> b]
    IN  [ctx |-> IdentityContext(r.id), b |-> r.b]

\* ----------------------------------------------------------------- targets

\* Full gRPC method strings, "/S/M" and "/t/n".
MethodSM == <<"/", "S", "/", "M">>
MethodTN == <<"/", "t", "/", "n">>
GrpcMethods == {MethodSM, MethodTN}

\* HTTP requests: GET /a and GET /b; no router parameters.
GET == <<"G", "E", "T">>
HttpUrls == {<<"/", "a">>, <<"/", "b">>}

HttpFlavours == {"httpz", "std", "stdLegacy", "ginLegacy"}
GrpcFlavours == {"grpcz", "rebac", "grpcLegacy", "check"}
\* The middlewares that keep the policy context in a field of the middleware.
LegacyFlavours == {"stdLegacy", "grpcLegacy", "ginLegacy"}
Flavours == HttpFlavours \cup GrpcFlavours

\* What one incoming call carries: kind is "http", "unary" or "stream"; msg
\* is the request message handed to the interceptor ("proto", "other" for a
\* value that is no proto message, "nil" for a stream or an HTTP request).
Targets(flavour) ==
    IF flavour \in HttpFlavours
    THEN {[kind |-> "http", method |-> GET, url |-> u, msg |-> "nil"] : u \in HttpUrls}
    ELSE {[kind |-> "unary", method |-> m, url |-> Empty, msg |-> g] :
              m \in GrpcMethods, g \in {"proto", "other"}}
         \cup {[kind |-> "stream", method |-> m, url |-> Empty, msg |-> "nil"] :
                  m \in GrpcMethods}

\* The caller of request r, and what the identity sources see of the request.
UserOf(r) == <<"u", ToString(r)>>

HeaderNames == {"Authorization", "X-User"}

Absent == [present |-> FALSE, isString |-> FALSE, str |-> Empty]

\* The value the inbound context carries under the key the middlewares read.
CtxUser == Str("alice")

EnvOf(r) ==
    [header   |-> [h \in HeaderNames |-> IF h = "Authorization" THEN UserOf(r) ELSE Empty],
     hasMd    |-> TRUE,
     md       |-> [f \in {"authorization"} |-> <<UserOf(r)>>],
     ctxValue |-> [present |-> TRUE, isString |-> TRUE, str |-> CtxUser],
     host     |-> Str("h")]

\* ------------------------------------------------------------- policy path

Static == Str("p")
CheckPath == Str("check")

\* httpz.getPathSegments
getPathSegments(t) == Split(Trim(t.url, "/"), "/")

\* httpz.urlPolicyPathMapper
urlPolicyPathMapper(prefix, t) ==
    LET policyPath == <<t.method>> \o getPathSegments(t)
    IN  Join(IF prefix # Empty THEN <<Trim(prefix, ".")>> \o policyPath ELSE policyPath, ".")

\* grpcz.methodPolicyMapper
methodPolicyMapper(policyRoot, t) ==
    IF policyRoot = Empty THEN ToPolicyPath(t.method)
    ELSE policyRoot \o <<".">> \o ToPolicyPath(t.method)

\* The policy mapper New installs: nil when the policy has a path.
DefaultPolicyMapper(policy) == IF policy.Path # Empty THEN "nil" ELSE "default"

\* m.policyMapper(r), the mapper being the one New installed.
policyMapper(flavour, t) ==
    IF flavour \in HttpFlavours THEN urlPolicyPathMapper(Empty, t)
    ELSE methodPolicyMapper(Empty, t)

\* The path of the policy context of one request: internal.DefaultPolicyContext,
\* overridden by the policy mapper when there is one.
resolvePath(m, t) ==
    IF m.policyMapper # "nil" THEN policyMapper(m.flavour, t) ELSE m.policy.Path

\* RebacMiddleware.policyContext: the policy's path, or [root.]check.
rebacPolicyContext(m) ==
    IF m.policy.Path # Empty THEN m.policy.Path
    ELSE IF m.policy.Root # Empty THEN m.policy.Root \o <<".">> \o CheckPath
    ELSE CheckPath

MaxPermissionLen == 64

\* grpcz.permissionFromMethod
permissionFromMethod(t) ==
    LET path == ToLower(ToPolicyPath(t.method))
    IN  IF Len(path) > MaxPermissionLen THEN SubSeq(path, 1, MaxPermissionLen) ELSE path

\* ---------------------------------------------------------------- resource

EmptyMap == [k \in {} |-> Empty]

Put(res, key, value) ==
    [k \in DOMAIN res \cup {key} |-> IF k = key THEN value ELSE res[k]]

\* A value structpb.NewValue has no conversion for.
Unsupported == Str("<unsupported>")

\* The fields of the proto message of the requests, with their values.
MsgFields == [k \in {"f"} |-> Str("v")]

\* The field paths a field-mask mapper was configured with: "fields" names
\* a field of the message, "badfields" a field the message does not have.
FieldPaths(kind) == IF kind = "fields" THEN {"f"} ELSE {"nope"}

\* pbutil.Select: newFieldMask fails on a path that is no field of the
\* message and Select then returns (nil, err).
Select(paths) ==
    IF paths \subseteq DOMAIN MsgFields
    THEN [err |-> FALSE, isNil |-> FALSE, fields |-> [k \in paths |-> MsgFields[k]]]
    ELSE [err |-> TRUE, isNil |-> TRUE, fields |-> EmptyMap]

\* structpb.Struct.AsMap: the empty map on a nil struct.
AsMap(strct) == IF strct.isNil THEN EmptyMap ELSE strct.fields

\* maps.Copy(dst, src)
Copy(dst, src) == [k \in DOMAIN dst \cup DOMAIN src |-> IF k \in DOMAIN src THEN src[k] ELSE dst[k]]

\* One resource mapper applied to the map built so far.  "fields" and
\* "badfields" are messageResourceMapper: nothing on a nil request, a panic
\* on a request that is no proto message, else the selected fields are
\* copied and the error of Select is dropped.  "custom" is a ResourceMapper
\* callback storing a value of unsupported type.
applyMapper(kind, t, acc) ==
    IF acc.status # "ok" THEN acc
    ELSE IF kind \in {"fields", "badfields"}
    THEN IF t.msg = "nil" THEN acc
         ELSE IF t.msg # "proto" THEN [acc EXCEPT !.status = "panic"]
         ELSE [acc EXCEPT !.res = Copy(acc.res, AsMap(Select(FieldPaths(kind))))]
    ELSE [acc EXCEPT !.res = Put(acc.res, "x", Unsupported)]

RECURSIVE applyMappers(_, _, _)
applyMappers(mappers, t, acc) ==
    IF mappers = << >> THEN acc
    ELSE applyMappers(Tail(mappers), t, applyMapper(Head(mappers), t, acc))

\* structpb.NewStruct: an error when a value cannot be converted.
NewStruct(acc) ==
    IF acc.status = "ok" /\ \E k \in DOMAIN acc.res : acc.res[k] = Unsupported
    THEN [acc EXCEPT !.status = "err"]
    ELSE acc

\* Middleware.resourceContext
resourceContext(m, t) ==
    NewStruct(applyMappers(m.resourceMappers, t, [status |-> "ok", res |-> EmptyMap]))

DefaultSubjType == Str("user")

\* RebacMiddleware.subjectType
subjectType(m) == IF m.subjType # Empty THEN m.subjType ELSE DefaultSubjType

\* RebacMiddleware.resourceContext
rebacResourceContext(m, t) ==
    LET acc == applyMappers(m.resourceMappers, t, [status |-> "ok", res |-> EmptyMap])
    IN  IF acc.status # "ok" THEN acc
        ELSE NewStruct([acc EXCEPT !.res =
                 Put(Put(Put(acc.res, "object_type", m.objType),
                         "relation", permissionFromMethod(t)),
                     "subject_type", subjectType(m))])

\* --------------------------------------------------------------- decisions

\* What the backend answers to one call: an error, or a list of decisions
\* (for the directory's Check, the single flag of the response).
RECURSIVE BoolSeqs(_)
BoolSeqs(n) ==
    IF n = 0 THEN {<< >>}
    ELSE BoolSeqs(n - 1) \cup
         {Append(d, x) : d \in {e \in BoolSeqs(n - 1) : Len(e) = n - 1}, x \in BOOLEAN}

Responses(flavour) ==
    {[err |-> TRUE, decisions |-> << >>]}
    \cup {[err |-> FALSE, decisions |-> d] :
             d \in IF flavour = "check" THEN {<<TRUE>>, <<FALSE>>} ELSE BoolSeqs(MaxDecisions)}

NoResponse == [err |-> FALSE, decisions |-> << >>]

Result(outcome, err, status) == [outcome |-> outcome, err |-> err, status |-> status]

\* isDecision without the test of the decision's value: a deny goes on to
\* the next handler.
isDecisionNoDenyTest(resp) ==
    IF resp.err THEN Result("error", "backend", 500)
    ELSE IF Len(resp.decisions) # 1 THEN Result("error", "ErrInvalidDecision", 500)
    ELSE Result("next", "nil", 0)

\* isDecision rejecting only an empty list of decisions, as the gRPC
\* interceptors do.
isDecisionFirstOfMany(resp) ==
    IF resp.err THEN Result("error", "backend", 500)
    ELSE IF Len(resp.decisions) = 0 THEN Result("error", "ErrInvalidDecision", 500)
    ELSE IF ~resp.decisions[1] THEN Result("forbidden", "nil", 403)
    ELSE Result("next", "nil", 0)

\* httpz.Middleware.is with the end of Handler (gorillaz, ginz and humaz
\* read the same): 500 on an error or on a number of decisions other than
\* one, 403 on false, else the next handler.
isDecision(resp) ==
    IF resp.err THEN Result("error", "backend", 500)
    ELSE IF Len(resp.decisions) # 1 THEN Result("error", "ErrInvalidDecision", 500)
    ELSE IF ~resp.decisions[1] THEN Result("forbidden", "nil", 403)
    ELSE Result("next", "nil", 0)

\* std.Middleware.Handler after client.Is: err.Error() is evaluated whenever
\* err != nil || len(resp.Decisions) != 1, a nil dereference when err is nil.
stdDecision(resp) ==
    IF resp.err THEN Result("error", "backend", 500)
    ELSE IF Len(resp.decisions) # 1 THEN Result("panic", "nil", 0)
    ELSE IF ~resp.decisions[1] THEN Result("forbidden", "nil", 403)
    ELSE Result("next", "nil", 0)

\* The older std.Middleware.Handler after client.Is: the else branch of
\* err == nil && len(resp.Decisions) == 1 evaluates err.Error().
stdLegacyDecision(resp) ==
    IF ~resp.err /\ Len(resp.decisions) = 1
    THEN IF resp.decisions[1] THEN Result("next", "nil", 0)
         ELSE Result("forbidden", "nil", 403)
    ELSE IF resp.err THEN Result("error", "backend", 500)
    ELSE Result("panic", "nil", 0)

\* grpcz.Middleware.authorize after client.Is (RebacMiddleware and the older
\* grpc.Middleware read the same): only an empty list is an invalid decision;
\* otherwise the first decision decides.
authorizeDecision(resp) ==
    IF resp.err THEN Result("error", "backend", 0)
    ELSE IF Len(resp.decisions) = 0 THEN Result("error", "ErrInvalidDecision", 0)
    ELSE IF ~resp.decisions[1] THEN Result("forbidden", "ErrAuthorizationFailed", 0)
    ELSE Result("next", "nil", 0)

\* checkDecision with a failed relation check reported as a denial.
checkDecisionErrAsDenial(resp) ==
    IF resp.err \/ ~resp.decisions[1] THEN Result("forbidden", "ErrAuthorizationFailed", 0)
    ELSE Result("next", "nil", 0)

\* grpcz.CheckMiddleware.authorize after dsClient.Check.
checkDecision(resp) ==
    IF resp.err THEN Result("error", "backend", 0)
    ELSE IF ~resp.decisions[1] THEN Result("forbidden", "ErrAuthorizationFailed", 0)
    ELSE Result("next", "nil", 0)

Decision(flavour, resp) ==
    CASE flavour = "httpz" -> isDecision(resp)
      [] flavour = "std" -> stdDecision(resp)
      [] flavour \in {"stdLegacy", "ginLegacy"} -> stdLegacyDecision(resp)
      [] flavour = "check" -> checkDecision(resp)
      [] OTHER -> authorizeDecision(resp)

\* -------------------------------------------------------------- resolution

\* What the code before the backend call leaves: stop is "none" (go on to
\* the call), "bypass" (allowed without a call), "error" or "panic".
Resolved ==
    [stop |-> "none", bypass |-> "none", err |-> "nil", status |-> 0, path |-> Empty,
     resource |-> EmptyMap, identity |-> IdentityNone(0), b |-> NewBuilder,
     events |-> << >>]

\* isAllowedMethod looking up the policy path of the method ("S.M") in place
\* of the full method string ("/S/M").
isAllowedMethodByPath(m, t) == Contains(m.allowedMethods, ToPolicyPath(t.method))

\* Middleware.isAllowedMethod
isAllowedMethod(m, t) == Contains(m.allowedMethods, t.method)

\* The identity builder's package of each middleware.
Variant(flavour) == IF flavour \in HttpFlavours THEN "http" ELSE "grpcz"

\* httpz.Middleware.Handler up to the call of m.is (std reads the same).
httpResolve(m, t, env) ==
    LET path == resolvePath(m, t)
        rc   == resourceContext(m, t)
        id   == Build(Variant(m.flavour), m.Identity, env)
    IN  IF rc.status = "panic"
        THEN [Resolved EXCEPT !.stop = "panic", !.path = path,
                              !.events = <<"path", "resource", "panic">>]
        ELSE IF rc.status = "err"
        THEN [Resolved EXCEPT !.stop = "error", !.err = "resourceMapper", !.status = 500,
                              !.path = path, !.events = <<"path", "resource", "error">>]
        ELSE [Resolved EXCEPT !.path = path, !.resource = rc.res, !.identity = id.ctx,
                              !.b = id.b, !.events = <<"path", "resource", "identity">>]

\* The older std.Middleware.Handler between the write of m.policyContext.Path
\* and client.Is: the resource mapper returns a struct and no error.
stdLegacyResolve(m, t, env) ==
    LET id == Build(Variant(m.flavour), m.Identity, env)
    IN  [Resolved EXCEPT !.identity = id.ctx, !.b = id.b,
                         !.events = <<"identity", "resource">>]

\* The older ginz.Middleware.Handler between the write of m.policy.Path and
\* client.Is: the resource context first, then the identity.
ginLegacyResolve(m, t, env) ==
    LET id == Build(Variant(m.flavour), m.Identity, env)
    IN  [Resolved EXCEPT !.identity = id.ctx, !.b = id.b,
                         !.events = <<"resource", "identity">>]

\* authorizeResolve looking up the ignored paths without regard to case.
authorizeResolveAnyCase(m, t, env) ==
    LET path == resolvePath(m, t)
        rc   == resourceContext(m, t)
        id   == Build(Variant(m.flavour), m.Identity, env)
    IN  IF isAllowedMethod(m, t)
        THEN [Resolved EXCEPT !.stop = "bypass", !.bypass = "allowed"]
        ELSE IF ToLower(path) \in {ToLower(x) : x \in m.ignoredPaths}
        THEN [Resolved EXCEPT !.stop = "bypass", !.bypass = "ignored", !.path = path,
                              !.events = <<"path">>]
        ELSE IF rc.status = "panic"
        THEN [Resolved EXCEPT !.stop = "panic", !.path = path,
                              !.events = <<"path", "resource", "panic">>]
        ELSE IF rc.status = "err"
        THEN [Resolved EXCEPT !.stop = "error", !.err = "resourceMapper", !.path = path,
                              !.events = <<"path", "resource", "error">>]
        ELSE [Resolved EXCEPT !.path = path, !.resource = rc.res, !.identity = id.ctx,
                              !.b = id.b, !.events = <<"path", "resource", "identity">>]

\* grpcz.Middleware.authorize up to client.Is.
authorizeResolve(m, t, env) ==
    LET path == resolvePath(m, t)
        rc   == resourceContext(m, t)
        id   == Build(Variant(m.flavour), m.Identity, env)
    IN  IF isAllowedMethod(m, t)
        THEN [Resolved EXCEPT !.stop = "bypass", !.bypass = "allowed"]
        ELSE IF Contains(m.ignoredPaths, path)
        THEN [Resolved EXCEPT !.stop = "bypass", !.bypass = "ignored", !.path = path,
                              !.events = <<"path">>]
        ELSE IF rc.status = "panic"
        THEN [Resolved EXCEPT !.stop = "panic", !.path = path,
                              !.events = <<"path", "resource", "panic">>]
        ELSE IF rc.status = "err"
        THEN [Resolved EXCEPT !.stop = "error", !.err = "resourceMapper", !.path = path,
                              !.events = <<"path", "resource", "error">>]
        ELSE [Resolved EXCEPT !.path = path, !.resource = rc.res, !.identity = id.ctx,
                              !.b = id.b, !.events = <<"path", "resource", "identity">>]

\* grpcz.RebacMiddleware.authorize up to client.Is: the ignored paths are
\* looked up with the relation derived from the method, after the resource
\* mappers ran.
rebacResolve(m, t, env) ==
    LET path == rebacPolicyContext(m)
        rc   == rebacResourceContext(m, t)
        id   == Build(Variant(m.flavour), m.Identity, env)
    IN  IF isAllowedMethod(m, t)
        THEN [Resolved EXCEPT !.stop = "bypass", !.bypass = "allowed"]
        ELSE IF rc.status = "panic"
        THEN [Resolved EXCEPT !.stop = "panic", !.path = path,
                              !.events = <<"path", "resource", "panic">>]
        ELSE IF rc.status = "err"
        THEN [Resolved EXCEPT !.stop = "error", !.err = "resourceMapper", !.path = path,
                              !.events = <<"path", "resource", "error">>]
        ELSE IF Contains(m.ignoredPaths, permissionFromMethod(t))
        THEN [Resolved EXCEPT !.stop = "bypass", !.bypass = "ignored", !.path = path,
                              !.events = <<"path", "resource">>]
        ELSE [Resolved EXCEPT !.path = path, !.resource = rc.res, !.identity = id.ctx,
                              !.b = id.b, !.events = <<"path", "resource", "identity">>]

\* The older grpc.Middleware.authorize between the write of
\* m.policyContext.Path and client.Is: the ignored methods are compared with
\* the path the middleware holds at that moment.
grpcLegacyResolve(m, t, env) ==
    LET rc == resourceContext(m, t)
        id == Build(Variant(m.flavour), m.Identity, env)
    IN  IF rc.status = "panic"
        THEN [Resolved EXCEPT !.stop = "panic", !.events = <<"resource", "panic">>]
        ELSE IF rc.status = "err"
        THEN [Resolved EXCEPT !.stop = "error", !.err = "resourceMapper",
                              !.events = <<"resource", "error">>]
        ELSE IF m.policyContextPath \in m.ignoredPaths
        THEN [Resolved EXCEPT !.stop = "bypass", !.bypass = "ignored",
                              !.events = <<"resource">>]
        ELSE [Resolved EXCEPT !.resource = rc.res, !.identity = id.ctx, !.b = id.b,
                              !.events = <<"resource", "identity">>]

\* A filter of the check middleware: the predicates WithMethodFilter and
\* WithContextValueFilter build, and a predicate given to WithFilter (here
\* one that matches the calls made without a request message).
FilterMatches(f, t, env) ==
    CASE f.kind = "method" -> Contains(f.methods, t.method)
      [] f.kind = "ctxValue" -> Contains(f.values, ValueOrEmpty(env.ctxValue))
      [] OTHER -> t.msg = "nil"

\* grpcz.CheckMiddleware.authorize from the resolution of the object up to
\* dsClient.Check; the check request is kept in the resource of the query.
checkRequest(m, t) ==
    LET relation == IF m.relName # Empty THEN m.relName ELSE permissionFromMethod(t)
        subjType == IF m.subjType = Empty THEN DefaultSubjType ELSE m.subjType
        check    == [k \in {"object_type", "object_id", "relation", "subject_type",
                            "subject_id"} |->
                        CASE k = "object_type" -> m.objType
                          [] k = "object_id" -> m.objID
                          [] k = "relation" -> relation
                          [] k = "subject_type" -> subjType
                          [] OTHER -> m.subjID]
    IN  IF m.objID = Empty
        THEN [Resolved EXCEPT !.stop = "error", !.err = "object ID is empty",
                              !.events = <<"object", "error">>]
        ELSE IF m.objType = Empty
        THEN [Resolved EXCEPT !.stop = "error", !.err = "object type is empty",
                              !.events = <<"object", "error">>]
        ELSE IF m.subjID = Empty
        THEN [Resolved EXCEPT !.stop = "error", !.err = "subject ID is empty",
                              !.events = <<"object", "subject", "error">>]
        ELSE [Resolved EXCEPT !.resource = check,
                              !.events = <<"object", "subject", "relation">>]

\* checkResolve with only the method filters consulted.
checkResolveMethodFilters(m, t, env) ==
    IF \E i \in 1..Len(m.filters) :
           m.filters[i].kind = "method" /\ FilterMatches(m.filters[i], t, env)
    THEN [Resolved EXCEPT !.stop = "bypass", !.bypass = "filter"]
    ELSE checkRequest(m, t)

\* grpcz.CheckMiddleware.authorize up to dsClient.Check: the filters first.
checkResolve(m, t, env) ==
    IF \E i \in 1..Len(m.filters) : FilterMatches(m.filters[i], t, env)
    THEN [Resolved EXCEPT !.stop = "bypass", !.bypass = "filter"]
    ELSE checkRequest(m, t)

Resolution(m, t, env) ==
    CASE m.flavour \in {"httpz", "std"} -> httpResolve(m, t, env)
      [] m.flavour = "stdLegacy" -> stdLegacyResolve(m, t, env)
      [] m.flavour = "ginLegacy" -> ginLegacyResolve(m, t, env)
      [] m.flavour = "grpcz" -> authorizeResolve(m, t, env)
      [] m.flavour = "rebac" -> rebacResolve(m, t, env)
      [] m.flavour = "grpcLegacy" -> grpcLegacyResolve(m, t, env)
      [] OTHER -> checkResolve(m, t, env)

\* ------------------------------------------------------------------- state

VARIABLES
    phase,      \* "config" while the middleware is set up, then "serve"
    mw,         \* the middleware object
    req,        \* the requests in flight, one record each
    active,     \* the requests of this run
    sched,      \* "serial": one request at a time; "parallel": one goroutine each
    pkg,        \* the package of the identity builder: "http", "grpcz", "humaz"
    ib,         \* an identity builder on its own
    built,      \* what its calls of Build returned
    route,      \* a routed HTTP request handed to a policy path mapper
    policyPath, \* the policy path the mapper returned for it
    rc,         \* an HTTP middleware as far as its resource mappers go
    resourceSent, \* the resource context it built for a request
    rpc, \* a gRPC call handed to one of the relation mappers
    relation, \* the relation the mapper derived from its method
    check, \* the Check handler (options, identity builder) and the request it serves
    isRequest, \* the request the Check handler sent to the authorizer
    conns, \* Connections.conns, the cache: hash of a configuration to its connection
    count, \* ConnectCounter.Count, the calls of Connections.Connect
    open, \* the connections dialed and not closed
    calls, \* the Get calls on the cache, each with its position and result
    dsClient, \* the directory connect operation and the Client it returns
    apiCall, \* a call of the REST authorizer client: its options, arguments and what the server answers
    apiResult \* what the call returned to its caller

\* The variables of the middlewares and of the identity builder.
mwVars == <<phase, mw, req, active, sched, pkg, ib, built>>

\* The variables of the parts of the library apart from the middlewares.
routeVars == <<route, policyPath>>
chainVars == <<rc, resourceSent>>
relationVars == <<rpc, relation>>
checkVars == <<check, isRequest>>
connsVars == <<conns, count, open, calls, dsClient>>
restVars == <<apiCall, apiResult>>
libVars == <<route, policyPath, rc, resourceSent, rpc, relation, check, isRequest, conns, count, open, calls, dsClient, apiCall, apiResult>>

\* All of them apart from one part's.
exceptRoute == <<chainVars, relationVars, checkVars, connsVars, restVars>>
exceptChain == <<routeVars, relationVars, checkVars, connsVars, restVars>>
exceptRelation == <<routeVars, chainVars, checkVars, connsVars, restVars>>
exceptCheck == <<routeVars, chainVars, relationVars, connsVars, restVars>>
exceptConns == <<routeVars, chainVars, relationVars, checkVars, restVars>>
exceptRest == <<routeVars, chainVars, relationVars, checkVars, connsVars>>

vars == <<phase, mw, req, active, sched, pkg, ib, built, route, policyPath, rc, resourceSent,
         rpc, relation,
         check, isRequest,
         conns, count, open, calls, dsClient,
         apiCall, apiResult>>

\* A route not yet given, a result not yet computed.
NoRoute == [router |-> "none", method |-> Empty, path |-> Empty, template |-> Empty,
            params |-> 0, prefix |-> Empty]
Unset == <<"unset">>

\* A middleware whose resource mappers are not looked at.
NoChain == [pkg |-> "none", mappers |-> << >>, params |-> 0]

\* The parts of the library apart from the middlewares are not in use.
RouteIdle == route = NoRoute /\ policyPath = Unset
NotSent == [sent |-> FALSE, isNil |-> TRUE, fields |-> << >>]
ChainIdle == rc = NoChain /\ resourceSent = NotSent
NoRpc == [pkg |-> "none", method |-> Empty]
RelationIdle == rpc = NoRpc /\ relation = Unset
NoCheck == [pkg |-> "none"]
NoIsRequest == [sent |-> FALSE]
CheckIdle == check = NoCheck /\ isRequest = NoIsRequest
NoConns == [h \in {} |-> 0]
NoClient == [status |-> "none"]
ConnsIdle == conns = NoConns /\ count = 0 /\ open = {} /\ calls = << >> /\ dsClient = NoClient
NoApiCall == [endpoint |-> "none"]
NoApiResult == [returned |-> FALSE]
RestIdle == apiCall = NoApiCall /\ apiResult = NoApiResult
MwIdle ==
    /\ phase = "serve"
    /\ mw = [flavour |-> "none"]
    /\ req = << >>
    /\ active = {}
    /\ sched = "serial"
    /\ pkg = "none"
    /\ ib = NewBuilder
    /\ built = << >>
LibIdle == RouteIdle /\ ChainIdle /\ RelationIdle /\ CheckIdle /\ ConnsIdle /\ RestIdle

\* All of them apart from one are not in use.
IdleExceptRoute == ChainIdle /\ RelationIdle /\ CheckIdle /\ ConnsIdle /\ RestIdle
IdleExceptChain == RouteIdle /\ RelationIdle /\ CheckIdle /\ ConnsIdle /\ RestIdle
IdleExceptRelation == RouteIdle /\ ChainIdle /\ CheckIdle /\ ConnsIdle /\ RestIdle
IdleExceptCheck == RouteIdle /\ ChainIdle /\ RelationIdle /\ ConnsIdle /\ RestIdle
IdleExceptConns == RouteIdle /\ ChainIdle /\ RelationIdle /\ CheckIdle /\ RestIdle
IdleExceptRest == RouteIdle /\ ChainIdle /\ RelationIdle /\ CheckIdle /\ ConnsIdle

Policies == {[Path |-> Empty, Root |-> Empty], [Path |-> Static, Root |-> Empty]}

\* New / NewRebacMiddleware / NewCheckMiddleware of each package.
NewMiddleware(flavour, policy) ==
    [flavour           |-> flavour,
     policy            |-> policy,
     policyMapper      |-> DefaultPolicyMapper(policy),
     policyContextPath |-> policy.Path,
     resourceMappers   |-> << >>,
     ignoredPaths      |-> {},
     allowedMethods    |-> {},
     Identity          |-> IF flavour \in HttpFlavours
                           THEN FromHeader(NewBuilder, <<"Authorization">>)
                           ELSE IF flavour = "rebac"
                           THEN FromMetadata(BuilderSubject(NewBuilder), "authorization")
                           ELSE FromMetadata(NewBuilder, "authorization"),
     objType           |-> Empty,
     objID             |-> Empty,
     subjType          |-> Empty,
     subjID            |-> Empty,
     relName           |-> Empty,
     filters           |-> << >>,
     ctxFallback       |-> FALSE]

NoTarget == [kind |-> "none", method |-> Empty, url |-> Empty, msg |-> "nil"]

NoQuery == [path |-> Empty, identity |-> IdentityNone(0), resource |-> EmptyMap]

Idle ==
    [pc |-> "idle", t |-> NoTarget, own |-> Empty, bypass |-> "none", q |-> NoQuery,
     sent |-> << >>, hasResp |-> FALSE, resp |-> NoResponse, outcome |-> "none",
     err |-> "nil", status |-> 0, events |-> << >>, handlerCalls |-> 0, msgs |-> 0,
     cancelled |-> FALSE]

Init ==
    /\ phase = "config"
    /\ mw \in {NewMiddleware(f, p) : f \in Flavours, p \in Policies}
    /\ req = [r \in Reqs |-> Idle]
    /\ active = 1..NReq
    /\ sched = "serial"
    /\ pkg = Variant(mw.flavour)
    /\ ib = NewBuilder
    /\ built = << >>
    /\ LibIdle

\* Two requests served concurrently by one of the middlewares that keep the
\* policy context in the middleware object.
InitConc ==
    /\ phase = "config"
    /\ mw \in {NewMiddleware(f, [Path |-> Empty, Root |-> Empty]) : f \in LegacyFlavours}
    /\ req = [r \in Reqs |-> Idle]
    /\ active = 1..NConc
    /\ sched = "parallel"
    /\ pkg = Variant(mw.flavour)
    /\ ib = NewBuilder
    /\ built = << >>
    /\ LibIdle

\* ------------------------------------------------------------ configuration

IgnoredChoices == {{<<"S", ".", "M">>}, {<<"s", ".", "m">>}}

\* Middleware.WithAllowedMethods(methods...)
WithAllowedMethods ==
    /\ phase = "config"
    /\ mw.flavour \in {"grpcz", "rebac"}
    /\ mw.allowedMethods = {}
    /\ mw' = [mw EXCEPT !.allowedMethods = {MethodSM}]
    /\ UNCHANGED <<phase, req, active, sched, pkg, ib, built, libVars>>

\* Middleware.WithIgnoredMethods(paths...): RebacMiddleware stores the paths
\* in lower case, the others as given.
WithIgnoredMethods ==
    /\ phase = "config"
    /\ mw.flavour \in {"grpcz", "rebac", "grpcLegacy"}
    /\ mw.ignoredPaths = {}
    /\ \E paths \in IgnoredChoices :
          mw' = [mw EXCEPT !.ignoredPaths =
                    IF mw.flavour = "rebac" THEN {ToLower(x) : x \in paths} ELSE paths]
    /\ UNCHANGED <<phase, req, active, sched, pkg, ib, built, libVars>>

\* Middleware.WithResourceFromFields(fields...)
WithResourceFromFields ==
    /\ phase = "config"
    /\ mw.flavour \in {"grpcz", "rebac", "grpcLegacy"}
    /\ mw.resourceMappers = << >>
    /\ mw' = [mw EXCEPT !.resourceMappers = Append(@, "fields")]
    /\ UNCHANGED <<phase, req, active, sched, pkg, ib, built, libVars>>

\* Middleware.WithResourceMapper(mapper)
WithResourceMapper ==
    /\ phase = "config"
    /\ mw.flavour \in {"httpz", "std", "grpcz", "rebac", "grpcLegacy"}
    /\ mw.resourceMappers = << >>
    /\ mw' = [mw EXCEPT !.resourceMappers = Append(@, "custom")]
    /\ UNCHANGED <<phase, req, active, sched, pkg, ib, built, libVars>>

\* m.Identity.None(): the requests are authorized as anonymous.
WithIdentityNone ==
    /\ phase = "config"
    /\ mw.flavour \in {"grpcz", "rebac"}
    /\ mw.Identity.identityType # "NONE"
    /\ mw' = [mw EXCEPT !.Identity = BuilderNone(@)]
    /\ UNCHANGED <<phase, req, active, sched, pkg, ib, built, libVars>>

\* WithObjectType(objType), WithObjectID(id), WithSubjectID(id) of the
\* check middleware.
WithObjectType ==
    /\ phase = "config"
    /\ mw.flavour = "check"
    /\ mw.objType = Empty
    /\ mw' = [mw EXCEPT !.objType = Str("tenant")]
    /\ UNCHANGED <<phase, req, active, sched, pkg, ib, built, libVars>>

WithObjectID ==
    /\ phase = "config"
    /\ mw.flavour = "check"
    /\ mw.objID = Empty
    /\ mw' = [mw EXCEPT !.objID = Str("o1")]
    /\ UNCHANGED <<phase, req, active, sched, pkg, ib, built, libVars>>

WithSubjectID ==
    /\ phase = "config"
    /\ mw.flavour = "check"
    /\ mw.subjID = Empty
    /\ mw' = [mw EXCEPT !.subjID = Str("s1")]
    /\ UNCHANGED <<phase, req, active, sched, pkg, ib, built, libVars>>

\* The filters of the check middleware, as records of what their
\* predicates look at.
MethodFilter(methods) == [kind |-> "method", methods |-> methods, values |-> {}]
ContextValueFilter(values) == [kind |-> "ctxValue", methods |-> {}, values |-> values]
CustomFilter == [kind |-> "custom", methods |-> {}, values |-> {}]

\* WithMethodFilter(methods...)
WithMethodFilter ==
    /\ phase = "config"
    /\ mw.flavour = "check"
    /\ Len(mw.filters) < MaxFilters
    /\ mw' = [mw EXCEPT !.filters = Append(@, MethodFilter({MethodSM}))]
    /\ UNCHANGED <<phase, req, active, sched, pkg, ib, built, libVars>>

\* WithContextValueFilter(ctxKey, values...)
WithContextValueFilter ==
    /\ phase = "config"
    /\ mw.flavour = "check"
    /\ Len(mw.filters) < MaxFilters
    /\ \E v \in {CtxUser, Str("carol")} :
          mw' = [mw EXCEPT !.filters = Append(@, ContextValueFilter({v}))]
    /\ UNCHANGED <<phase, req, active, sched, pkg, ib, built, libVars>>

\* WithFilter(filter)
WithFilter ==
    /\ phase = "config"
    /\ mw.flavour = "check"
    /\ Len(mw.filters) < MaxFilters
    /\ mw' = [mw EXCEPT !.filters = Append(@, CustomFilter)]
    /\ UNCHANGED <<phase, req, active, sched, pkg, ib, built, libVars>>

\* The middleware is installed on the server.
Serve ==
    /\ phase = "config"
    /\ phase' = "serve"
    /\ UNCHANGED <<mw, req, active, sched, pkg, ib, built, libVars>>

\* ---------------------------------------------------------------- requests

Legacy == mw.flavour \in LegacyFlavours

\* next.ServeHTTP(w, r) / handler(ctx, req) / handler(srv, stream): a
\* stream's handler keeps running to receive the messages.
Invoke(rec) ==
    [rec EXCEPT !.pc = IF rec.t.kind = "stream" THEN "handling" ELSE "done",
                !.outcome = "next",
                !.handlerCalls = @ + 1,
                !.events = Append(@, "next")]

\* The request ends without the handler: http.Error, or the error returned
\* by the interceptor; a panic unwinds the goroutine.
Reject(rec, outcome, err, status) ==
    [rec EXCEPT !.pc = "done", !.outcome = outcome, !.err = err, !.status = status]

\* A request reaches the middleware: after the ones before it have ended
\* when the requests are served one at a time.
Start(r) ==
    /\ phase = "serve"
    /\ r \in active
    /\ req[r].pc = "idle"
    /\ sched = "serial" => \A o \in active : o < r => req[o].pc = "done"
    /\ \E t \in Targets(mw.flavour) : req' = [req EXCEPT ![r].pc = "started", ![r].t = t]
    /\ UNCHANGED <<phase, mw, active, sched, pkg, ib, built, libVars>>

\* The first statement of the older std.Middleware.Handler and
\* grpc.Middleware.authorize: m.policyContext.Path = m.policyMapper(...),
\* a write to the middleware object.
PolicyPath(r) ==
    /\ Legacy
    /\ req[r].pc = "started"
    /\ LET path == IF mw.policyMapper # "nil" THEN policyMapper(mw.flavour, req[r].t)
                   ELSE mw.policyContextPath
       IN  /\ mw' = [mw EXCEPT !.policyContextPath = path]
           /\ req' = [req EXCEPT ![r].pc = "pathed", ![r].own = path,
                                 ![r].events = Append(@, "path")]
    /\ UNCHANGED <<phase, active, sched, pkg, ib, built, libVars>>

\* Everything the handler or interceptor does before the backend call.
Resolve(r) ==
    /\ req[r].pc = IF Legacy THEN "pathed" ELSE "started"
    /\ LET rec == req[r]
           res == Resolution(mw, rec.t, EnvOf(r))
           own == IF Legacy THEN rec.own ELSE res.path
           seen == [rec EXCEPT !.own = own, !.bypass = res.bypass,
                               !.events = @ \o res.events]
       IN  req' = [req EXCEPT ![r] =
               CASE res.stop = "bypass" -> Invoke(seen)
                 [] res.stop = "error" -> Reject(seen, "error", res.err, res.status)
                 [] res.stop = "panic" -> Reject(seen, "panic", "nil", 0)
                 [] OTHER -> [seen EXCEPT !.pc = "resolved",
                                          !.q = [path |-> res.path,
                                                 identity |-> res.identity,
                                                 resource |-> res.resource]]]
    /\ UNCHANGED <<phase, mw, active, sched, pkg, ib, built, libVars>>

\* Call without waiting for the resolution: the query leaves as soon as the
\* request has started.
CallUnresolved(r) ==
    /\ req[r].pc \in {"started", "resolved"}
    /\ req' = [req EXCEPT ![r].pc = "called",
                          ![r].sent = Append(@, req[r].q),
                          ![r].events = Append(@, "call")]
    /\ UNCHANGED <<phase, mw, active, sched, pkg, ib, built, libVars>>

\* client.Is / dsClient.Check is called and the query leaves.  The older
\* middlewares pass &m.policyContext: the path sent is the one the
\* middleware object holds when the request is marshalled.
Call(r) ==
    /\ req[r].pc = "resolved"
    /\ LET q == IF Legacy THEN [req[r].q EXCEPT !.path = mw.policyContextPath]
                ELSE req[r].q
       IN  req' = [req EXCEPT ![r].pc = "called",
                              ![r].sent = Append(@, q),
                              ![r].events = Append(@, "call")]
    /\ UNCHANGED <<phase, mw, active, sched, pkg, ib, built, libVars>>

\* Return with a retry: after a backend error the request goes back to
\* issue the call again.
ReturnRetry(r) ==
    /\ req[r].pc = "called"
    /\ \E resp \in Responses(mw.flavour) :
          LET d   == Decision(mw.flavour, resp)
              got == [req[r] EXCEPT !.hasResp = TRUE, !.resp = resp,
                                    !.events = Append(@, "response")]
          IN  req' = [req EXCEPT ![r] =
                  IF resp.err /\ Len(req[r].sent) < 2 THEN [got EXCEPT !.pc = "resolved"]
                  ELSE IF d.outcome = "next" THEN Invoke(got)
                  ELSE Reject([got EXCEPT !.events = Append(@, d.outcome)],
                              d.outcome, d.err, d.status)]
    /\ UNCHANGED <<phase, mw, active, sched, pkg, ib, built, libVars>>

\* The context handed to client.Is: the request's own context, except in
\* the older ginz middleware, which hands over the *gin.Context.
CallContext(m) == IF m.flavour = "ginLegacy" THEN "gin" ELSE "request"

\* The context of the pending call of request r is done.  A *gin.Context
\* follows the request's context only when the engine was set up with
\* ContextWithFallback; otherwise its Done channel never closes.
CallContextDone(r) ==
    /\ req[r].cancelled
    /\ CallContext(mw) = "gin" => mw.ctxFallback

\* The backend answers and the middleware acts on the answer.
Return(r) ==
    /\ req[r].pc = "called"
    /\ ~CallContextDone(r)
    /\ \E resp \in Responses(mw.flavour) :
          LET d   == Decision(mw.flavour, resp)
              got == [req[r] EXCEPT !.hasResp = TRUE, !.resp = resp,
                                    !.events = Append(@, "response")]
          IN  req' = [req EXCEPT ![r] =
                  IF d.outcome = "next" THEN Invoke(got)
                  ELSE Reject([got EXCEPT !.events = Append(@, d.outcome)],
                              d.outcome, d.err, d.status)]
    /\ UNCHANGED <<phase, mw, active, sched, pkg, ib, built, libVars>>

\* StreamMsg with the authorization done per message: every message
\* received sends a query of its own.
StreamMsgAuthorized(r) ==
    /\ req[r].pc = "handling"
    /\ req[r].msgs < MaxMsgs
    /\ req' = [req EXCEPT ![r].msgs = @ + 1,
                          ![r].sent = Append(@, req[r].q),
                          ![r].events = @ \o <<"call", "response", "msg">>]
    /\ UNCHANGED <<phase, mw, active, sched, pkg, ib, built, libVars>>

\* The stream handler receives a message from the stream.
StreamMsg(r) ==
    /\ req[r].pc = "handling"
    /\ req[r].msgs < MaxMsgs
    /\ req' = [req EXCEPT ![r].msgs = @ + 1, ![r].events = Append(@, "msg")]
    /\ UNCHANGED <<phase, mw, active, sched, pkg, ib, built, libVars>>

\* The stream handler returns.
StreamEnd(r) ==
    /\ req[r].pc = "handling"
    /\ req' = [req EXCEPT ![r].pc = "done"]
    /\ UNCHANGED <<phase, mw, active, sched, pkg, ib, built, libVars>>

\* The gin engine is created with ContextWithFallback set.
ContextWithFallback ==
    /\ phase = "config"
    /\ mw.flavour = "ginLegacy"
    /\ ~mw.ctxFallback
    /\ mw' = [mw EXCEPT !.ctxFallback = TRUE]
    /\ UNCHANGED <<phase, req, active, sched, pkg, ib, built, libVars>>

\* The inbound request is cancelled or its deadline passes before the
\* handler has been reached.
Cancel(r) ==
    /\ req[r].pc \in {"started", "pathed", "resolved", "called"}
    /\ ~req[r].cancelled
    /\ req' = [req EXCEPT ![r].cancelled = TRUE]
    /\ UNCHANGED <<phase, mw, active, sched, pkg, ib, built, libVars>>

\* client.Is returns the error of its context, which is done.
CallCancelled(r) ==
    /\ req[r].pc = "called"
    /\ CallContextDone(r)
    /\ LET resp == [err |-> TRUE, decisions |-> << >>]
           d    == Decision(mw.flavour, resp)
           got  == [req[r] EXCEPT !.hasResp = TRUE, !.resp = resp,
                                  !.events = @ \o <<"response", d.outcome>>]
       IN  req' = [req EXCEPT ![r] = Reject(got, d.outcome, d.err, d.status)]
    /\ UNCHANGED <<phase, mw, active, sched, pkg, ib, built, libVars>>

\* The HTTP middlewares with requests that may be cancelled; the backend is
\* not bound to answer, a call whose context is done is bound to return.
CancelFlavours == {"httpz", "std", "ginLegacy"}

InitCancel ==
    /\ phase = "config"
    /\ mw \in {NewMiddleware(f, p) : f \in CancelFlavours, p \in Policies}
    /\ req = [r \in Reqs |-> Idle]
    /\ active = 1..NReq
    /\ sched = "serial"
    /\ pkg = Variant(mw.flavour)
    /\ ib = NewBuilder
    /\ built = << >>
    /\ LibIdle

NextCancel ==
    \/ ContextWithFallback
    \/ Serve
    \/ \E r \in Reqs : Start(r)
    \/ \E r \in Reqs : PolicyPath(r)
    \/ \E r \in Reqs : Resolve(r)
    \/ \E r \in Reqs : Call(r)
    \/ \E r \in Reqs : Cancel(r)
    \/ \E r \in Reqs : CallCancelled(r)
    \/ \E r \in Reqs : Return(r)

SpecCancel ==
    InitCancel /\ [][NextCancel]_vars /\ \A r \in Reqs : WF_vars(CallCancelled(r))

Next ==
    \/ WithAllowedMethods
    \/ WithIgnoredMethods
    \/ WithResourceFromFields
    \/ WithResourceMapper
    \/ WithIdentityNone
    \/ WithObjectType
    \/ WithObjectID
    \/ WithSubjectID
    \/ WithMethodFilter
    \/ WithContextValueFilter
    \/ WithFilter
    \/ Serve
    \/ \E r \in Reqs : Start(r)
    \/ \E r \in Reqs : PolicyPath(r)
    \/ \E r \in Reqs : Resolve(r)
    \/ \E r \in Reqs : Call(r)
    \/ \E r \in Reqs : Return(r)
    \/ \E r \in Reqs : StreamMsg(r)
    \/ \E r \in Reqs : StreamEnd(r)

Spec == Init /\ [][Next]_vars

NextConc ==
    \/ WithIgnoredMethods
    \/ Serve
    \/ \E r \in Reqs : Start(r)
    \/ \E r \in Reqs : PolicyPath(r)
    \/ \E r \in Reqs : Resolve(r)
    \/ \E r \in Reqs : Call(r)
    \/ \E r \in Reqs : Return(r)
    \/ \E r \in Reqs : StreamMsg(r)
    \/ \E r \in Reqs : StreamEnd(r)

SpecConc == InitConc /\ [][NextConc]_vars

\* ------------------------------------------------------------------ claims

\* ---------------------------------------------------------- identity builder

\* ------------------------------------------------------- field-mask resource

\* The grpcz middleware with resource mappers that select fields of the
\* request message.
InitFieldMask ==
    /\ phase = "config"
    /\ mw \in {NewMiddleware("grpcz", p) : p \in Policies}
    /\ req = [r \in Reqs |-> Idle]
    /\ active = 1..NReq
    /\ sched = "serial"
    /\ pkg = Variant(mw.flavour)
    /\ ib = NewBuilder
    /\ built = << >>
    /\ LibIdle

\* Middleware.WithResourceFromMessageByPath(fieldsByPath, defaults...), the
\* default fields being a field of the message or an unknown one.
WithResourceFromMessageByPath ==
    /\ phase = "config"
    /\ mw.flavour = "grpcz"
    /\ mw.resourceMappers = << >>
    /\ \E kind \in {"fields", "badfields"} :
          mw' = [mw EXCEPT !.resourceMappers = Append(@, kind)]
    /\ UNCHANGED <<phase, req, active, sched, pkg, ib, built, libVars>>

NextFieldMask ==
    \/ WithResourceFromMessageByPath
    \/ Serve
    \/ \E r \in Reqs : Start(r)
    \/ \E r \in Reqs : Resolve(r)
    \/ \E r \in Reqs : Call(r)
    \/ \E r \in Reqs : Return(r)
    \/ \E r \in Reqs : StreamMsg(r)
    \/ \E r \in Reqs : StreamEnd(r)

SpecFieldMask == InitFieldMask /\ [][NextFieldMask]_vars

\* An identity builder on its own: it is configured, then Build is called
\* for one request after another.
InitIdentity ==
    /\ phase = "config"
    /\ mw = NewMiddleware("httpz", [Path |-> Empty, Root |-> Empty])
    /\ req = [r \in Reqs |-> Idle]
    /\ active = {}
    /\ sched = "serial"
    /\ pkg \in {"http", "grpcz", "humaz"}
    /\ ib = NewBuilder
    /\ built = << >>
    /\ LibIdle

CtxString(s) == [present |-> TRUE, isString |-> TRUE, str |-> s]

\* What the requests given to Build hold: the Authorization header (or
\* metadata field) and the context value, each absent or set.
Envs ==
    {[header   |-> [h \in HeaderNames |-> IF h = "Authorization" THEN a ELSE Empty],
      hasMd    |-> TRUE,
      md       |-> [f \in {"authorization"} |-> IF a = Empty THEN << >> ELSE <<a>>],
      ctxValue |-> c,
      host     |-> Str("h")] :
        a \in {Empty, UserOf(1)},
        c \in {Absent, CtxString(Str("alice")), CtxString(Str("carol"))}}

\* IdentityBuilder.JWT() / Subject() / Manual() / None() / ID(identity)
IbJWT ==
    /\ phase = "config"
    /\ ib' = BuilderJWT(ib)
    /\ UNCHANGED <<phase, mw, req, active, sched, pkg, built, libVars>>

IbSubject ==
    /\ phase = "config"
    /\ ib' = BuilderSubject(ib)
    /\ UNCHANGED <<phase, mw, req, active, sched, pkg, built, libVars>>

IbManual ==
    /\ phase = "config"
    /\ ib' = BuilderManual(ib)
    /\ UNCHANGED <<phase, mw, req, active, sched, pkg, built, libVars>>

IbNone ==
    /\ phase = "config"
    /\ ib' = BuilderNone(ib)
    /\ UNCHANGED <<phase, mw, req, active, sched, pkg, built, libVars>>

IbID ==
    /\ phase = "config"
    /\ ib' = BuilderID(ib, Str("static"))
    /\ UNCHANGED <<phase, mw, req, active, sched, pkg, built, libVars>>

\* IdentityBuilder.FromHeader("Authorization") / FromMetadata("authorization")
IbFromHeader ==
    /\ phase = "config"
    /\ ib' = IF pkg = "grpcz" THEN FromMetadata(ib, "authorization")
             ELSE FromHeader(ib, <<"Authorization">>)
    /\ UNCHANGED <<phase, mw, req, active, sched, pkg, built, libVars>>

\* IdentityBuilder.FromContextValue(key)
IbFromContextValue ==
    /\ phase = "config"
    /\ ib' = FromContextValue(ib)
    /\ UNCHANGED <<phase, mw, req, active, sched, pkg, built, libVars>>

\* IdentityBuilder.FromHostname(0)
IbFromHostname ==
    /\ phase = "config"
    /\ pkg # "grpcz"
    /\ ib' = FromHostname(ib, 0)
    /\ UNCHANGED <<phase, mw, req, active, sched, pkg, built, libVars>>

\* IdentityBuilder.Mapper(mapper)
IbMapper ==
    /\ phase = "config"
    /\ \E cb \in Callbacks : ib' = BuilderMapper(ib, cb)
    /\ UNCHANGED <<phase, mw, req, active, sched, pkg, built, libVars>>

\* IdentityBuilder.Build(r) for one more request.
IbBuild ==
    /\ phase = "serve"
    /\ Len(built) < MaxBuilds
    /\ \E env \in Envs :
          LET r == Build(pkg, ib, env)
          IN  /\ ib' = r.b
              /\ built' = Append(built, [env |-> env, ctx |-> r.ctx, b |-> ib])
    /\ UNCHANGED <<phase, mw, req, active, sched, pkg, libVars>>

NextIdentity ==
    \/ IbJWT
    \/ IbSubject
    \/ IbManual
    \/ IbNone
    \/ IbID
    \/ IbFromHeader
    \/ IbFromContextValue
    \/ IbFromHostname
    \/ IbMapper
    \/ Serve
    \/ IbBuild

SpecIdentity == InitIdentity /\ [][NextIdentity]_vars

\* A builder reading several headers, built for requests that carry any of
\* them: the Authorization header absent, plain, with the Bearer scheme or
\* with the scheme alone, the X-User header absent or set.
InitHeaders ==
    /\ phase = "config"
    /\ mw = NewMiddleware("httpz", [Path |-> Empty, Root |-> Empty])
    /\ req = [r \in Reqs |-> Idle]
    /\ active = {}
    /\ sched = "serial"
    /\ pkg \in {"http", "humaz"}
    /\ ib = NewBuilder
    /\ built = << >>
    /\ LibIdle

HeaderLists ==
    {<<"Authorization">>, <<"X-User", "Authorization">>, <<"Authorization", "X-User">>}

HeaderEnvs ==
    {[header   |-> [h \in HeaderNames |-> IF h = "Authorization" THEN a ELSE x],
      hasMd    |-> FALSE,
      md       |-> [f \in {"authorization"} |-> << >>],
      ctxValue |-> Absent,
      host     |-> Str("h")] :
        a \in {Empty, UserOf(1), <<"Bearer", " ", "jwt:bob">>, <<"Bearer">>},
        x \in {Empty, Str("xu")}}

\* IdentityBuilder.FromHeader(h1, h2, ...)
IbFromHeaders ==
    /\ phase = "config"
    /\ \E hs \in HeaderLists : ib' = FromHeader(ib, hs)
    /\ UNCHANGED <<phase, mw, req, active, sched, pkg, built, libVars>>

\* IdentityBuilder.Build(r) for one more request.
IbBuildHeaders ==
    /\ phase = "serve"
    /\ Len(built) < MaxBuilds
    /\ \E env \in HeaderEnvs :
          LET r == Build(pkg, ib, env)
          IN  /\ ib' = r.b
              /\ built' = Append(built, [env |-> env, ctx |-> r.ctx, b |-> ib])
    /\ UNCHANGED <<phase, mw, req, active, sched, pkg, libVars>>

NextHeaders ==
    \/ IbJWT
    \/ IbSubject
    \/ IbManual
    \/ IbNone
    \/ IbID
    \/ IbFromHeaders
    \/ Serve
    \/ IbBuildHeaders

SpecHeaders == InitHeaders /\ [][NextHeaders]_vars

\* ------------------------------------------------------ URL policy mappers

\* strings.HasPrefix / strings.HasSuffix for a one-character affix.
HasPrefix(s, c) == s # Empty /\ Head(s) = c
HasSuffix(s, c) == s # Empty /\ s[Len(s)] = c

\* The path the mapper of each router splits: the route's template when the
\* request has path parameters (mux.CurrentRoute(r).GetPathTemplate(),
\* c.FullPath()), the operation's path in humaz, the URL's path otherwise.
routePath(rt) ==
    CASE rt.router = "httpz" -> rt.path
      [] rt.router = "humaz" -> rt.template
      [] OTHER -> IF rt.params > 0 THEN rt.template ELSE rt.path

\* getPathSegments of gorillaz, ginz and humaz.
routeSegments(rt) == Split(Trim(routePath(rt), "/"), "/")

\* The rewrite of one segment of the template by each router's mapper:
\* gorillaz looks for "{name}", ginz and humaz look for ":name".
paramSegment(router, segment) ==
    IF router = "gorillaz"
    THEN IF HasPrefix(segment, "{") /\ HasSuffix(segment, "}")
         THEN <<"__">> \o SubSeq(segment, 2, Len(segment) - 1)
         ELSE segment
    ELSE IF HasPrefix(segment, ":") THEN <<"__">> \o Tail(segment)
    ELSE segment

\* urlPolicyPathMapper(prefix)(r) of gorillaz, ginz and humaz.
routePolicyPathMapper(rt) ==
    LET segments   == routeSegments(rt)
        rewritten  == IF rt.params > 0
                      THEN [i \in 1..Len(segments) |-> paramSegment(rt.router, segments[i])]
                      ELSE segments
        parts      == <<rt.method>> \o rewritten
    IN  Join(IF rt.prefix # Empty THEN <<Trim(rt.prefix, ".")>> \o parts
             ELSE parts, ".")

\* The policy path mapper WithPolicyFromURL(prefix) installs in each package.
PolicyFromURL(rt) ==
    IF rt.router = "httpz"
    THEN urlPolicyPathMapper(rt.prefix, [method |-> rt.method, url |-> rt.path])
    ELSE routePolicyPathMapper(rt)

POST == <<"P", "O", "S", "T">>
Products == "products"
MyApp == "myapp"

\* Resource mappers registered on one middleware after New.
MaxMappers == 2

\* The placeholder of a path parameter in the template syntax of each
\* router: "{id}" in gorilla/mux and huma, ":id" in gin.
Placeholder(router, name) ==
    IF router = "ginz" THEN <<":", name>> ELSE <<"{", name, "}">>

\* The routes of the model: "/", "/products", "/products/" and, in the
\* routers with path parameters, "/products/{id}" requested as "/products/42".
Routers == {"httpz", "gorillaz", "ginz", "humaz"}

Routes(router) ==
    {[template |-> <<"/">>, path |-> <<"/">>, params |-> 0],
     [template |-> <<"/", Products>>, path |-> <<"/", Products>>, params |-> 0],
     [template |-> <<"/", Products, "/">>, path |-> <<"/", Products, "/">>, params |-> 0]}
    \cup IF router = "httpz" THEN {}
         ELSE {[template |-> <<"/", Products, "/">> \o Placeholder(router, "id"),
                path |-> <<"/", Products, "/", "42">>, params |-> 1]}

RouteInputs ==
    {[router |-> router, method |-> m, path |-> x.path, template |-> x.template,
      params |-> x.params, prefix |-> p] :
        router \in Routers, m \in {GET, POST},
        x \in UNION {Routes(k) : k \in Routers}, p \in {Empty, <<MyApp>>, <<MyApp, ".">>}}

\* A routed request reaches a middleware set up with WithPolicyFromURL.
InitRoute ==
    /\ MwIdle
    /\ IdleExceptRoute
    /\ route \in {rt \in RouteInputs :
                     [template |-> rt.template, path |-> rt.path, params |-> rt.params]
                         \in Routes(rt.router)}
    /\ policyPath = Unset

\* m.policyMapper(r)
MapPolicyPath ==
    /\ route # NoRoute
    /\ policyPath = Unset
    /\ policyPath' = PolicyFromURL(route)
    /\ UNCHANGED <<mwVars, route, exceptRoute>>

NextRoute == MapPolicyPath

SpecRoute == InitRoute /\ [][NextRoute]_vars

\* ------------------------------------------------ HTTP resource mappers

\* The packages whose middleware keeps a list of resource mappers, and the
\* older std middleware, which keeps a single one.
ChainPkgs == {"httpz", "gorillaz", "ginz", "std"}
SinglePkgs == {"stdLegacy"}

\* New: the default mapper sends the path parameters; httpz starts with
\* an empty list.
NewChain(p, params) ==
    [pkg     |-> p,
     mappers |-> IF p = "httpz" THEN << >> ELSE <<"default">>,
     params  |-> params]

\* The path parameters of the request: id = "42" when the route has one.
PathParams(n) == IF n > 0 THEN [k \in {"id"} |-> Str("42")] ELSE EmptyMap

\* One mapper applied to the map built so far: defaultResourceMapper copies
\* the path parameters, "a" and "b" are callbacks setting a key of their
\* own, "noop" is the mapper WithNoResourceContext installs.
chainMapper(kind, params, res) ==
    CASE kind = "default" -> Copy(res, PathParams(params))
      [] kind \in {"a", "b"} -> Put(res, kind, Str("v"))
      [] OTHER -> res

RECURSIVE chainMappers(_, _, _)
chainMappers(mappers, params, res) ==
    IF mappers = << >> THEN res
    ELSE chainMappers(Tail(mappers), params, chainMapper(Head(mappers), params, res))

\* Middleware.resourceContext: every mapper of the list in turn; the older
\* std middleware calls m.resourceMapper(r), which returns nil after
\* WithNoResourceContext.
chainResource(c) ==
    IF c.pkg \in SinglePkgs /\ c.mappers = <<"nil">>
    THEN [sent |-> TRUE, isNil |-> TRUE, fields |-> EmptyMap]
    ELSE [sent |-> TRUE, isNil |-> FALSE, fields |-> chainMappers(c.mappers, c.params, EmptyMap)]

\* WithNoResourceContext with the no-op mapper added to the list.
NoResourceContextAppended(c) == [c EXCEPT !.mappers = Append(@, "noop")]

\* WithNoResourceContext: a single no-op mapper, an empty list in ginz, a
\* mapper returning nil in the older std middleware.
NoResourceContext(c) ==
    [c EXCEPT !.mappers = CASE c.pkg = "ginz" -> << >>
                            [] c.pkg \in SinglePkgs -> <<"nil">>
                            [] OTHER -> <<"noop">>]

\* WithResourceMapper(mapper): appended to the list; the older std
\* middleware replaces its mapper.
ResourceMapperAdded(c, mapper) ==
    [c EXCEPT !.mappers = IF c.pkg \in SinglePkgs THEN <<mapper>> ELSE Append(@, mapper)]

InitChain ==
    /\ MwIdle
    /\ IdleExceptChain
    /\ rc \in {NewChain(p, n) : p \in ChainPkgs \cup SinglePkgs, n \in {0, 1}}
    /\ resourceSent = NotSent

\* Middleware.WithResourceMapper(mapper)
ChainWithResourceMapper ==
    /\ ~resourceSent.sent
    /\ Len(rc.mappers) < MaxMappers + 1
    /\ \E mapper \in {"a", "b"} : rc' = ResourceMapperAdded(rc, mapper)
    /\ UNCHANGED <<mwVars, resourceSent, exceptChain>>

\* Middleware.WithNoResourceContext()
ChainWithNoResourceContext ==
    /\ ~resourceSent.sent
    /\ rc' = NoResourceContext(rc)
    /\ UNCHANGED <<mwVars, resourceSent, exceptChain>>

\* The handler builds the resource context of a request.
ChainHandler ==
    /\ ~resourceSent.sent
    /\ resourceSent' = chainResource(rc)
    /\ UNCHANGED <<mwVars, rc, exceptChain>>

NextChain ==
    \/ ChainWithResourceMapper
    \/ ChainWithNoResourceContext
    \/ ChainHandler

SpecChain == InitChain /\ [][NextChain]_vars

\* --------------------------------------------------- relation from method

\* The longest service name of the gRPC methods given to the mappers.
MaxServiceLen == 70

\* The full method "/<service>/M" with a service name of n letters.
MethodOfLen(n) == <<"/">> \o [i \in 1..n |-> IF i % 2 = 1 THEN "S" ELSE "s"] \o <<"/", "M">>

\* The middlewares deriving the relation from the method: RebacMiddleware
\* and grpcz.CheckMiddleware through permissionFromMethod, the older
\* grpc.CheckMiddleware through methodResource.
RelationPkgs == {"rebac", "grpcz.check", "grpc.check"}

\* grpc.methodResource
methodResource(t) == ToLower(ToPolicyPath(t.method))

\* The relation of a call when neither a name nor a mapper is configured.
RelationFromMethod(c) ==
    IF c.pkg = "grpc.check" THEN methodResource(c) ELSE permissionFromMethod(c)

InitRelation ==
    /\ MwIdle
    /\ IdleExceptRelation
    /\ rpc \in {[pkg |-> p, method |-> MethodOfLen(n)] :
                   p \in RelationPkgs, n \in 1..MaxServiceLen}
    /\ relation = Unset

\* The interceptor derives the relation of the call.
DeriveRelation ==
    /\ relation = Unset
    /\ relation' = RelationFromMethod(rpc)
    /\ UNCHANGED <<mwVars, rpc, exceptRelation>>

NextRelation == DeriveRelation

SpecRelation == InitRelation /\ [][NextRelation]_vars

\* ------------------------------------------------------- the Check handler

\* The packages whose Check has WithObjectIDFromVar.
CheckPkgs == {"ginz", "humaz"}

\* The object and the relation the custom mappers of the options return.
MappedObject == [objType |-> Str("doc"), objID |-> Str("d1")]
MappedRelation == Str("write")

\* gin.Context.Param / huma.Context.Param: "" for a variable the route
\* does not have.
Param(rq, name) == IF name \in DOMAIN rq.params THEN rq.params[name] ELSE Empty

\* A variant of CheckOptions.object that ignores the ID mapper.
objectStaticOnly(o, rq) ==
    IF o.objMapper # "nil" THEN MappedObject
    ELSE [objType |-> o.objType, objID |-> o.objID]

\* CheckOptions.object
object(o, rq) ==
    CASE o.objMapper # "nil" -> MappedObject
      [] o.idMapper = "custom" -> [objType |-> o.objType, objID |-> Str("m1")]
      [] o.idMapper # "nil" -> [objType |-> o.objType, objID |-> Param(rq, o.idMapper)]
      [] OTHER -> [objType |-> o.objType, objID |-> o.objID]

\* CheckOptions.relation
relationOf(o, rq) == IF o.relMapper # "nil" THEN MappedRelation ELSE o.relName

\* Check.resourceContext; CheckOptions.subjectType is subjectType.
checkResourceContext(c) ==
    LET obj == object(c.opts, c.request)
    IN  [k \in {"relation", "object_type", "object_id", "subject_type"} |->
            CASE k = "relation" -> relationOf(c.opts, c.request)
              [] k = "object_type" -> obj.objType
              [] k = "object_id" -> obj.objID
              [] OTHER -> subjectType(c.opts)]

\* Check.identityContext, with no identity mapper in the options.
identityContext(c) == Build(c.pkg, c.identity, c.request.env).ctx

\* The environment of a request with the given Authorization header.
CheckEnv(a) ==
    [header   |-> [h \in HeaderNames |-> IF h = "Authorization" THEN a ELSE Empty],
     hasMd    |-> FALSE,
     md       |-> [f \in {"authorization"} |-> << >>],
     ctxValue |-> Absent,
     host     |-> Str("h")]

CheckOptionSets ==
    [objType : {Empty, Str("item")}, objID : {Empty, Str("7")},
     idMapper : {"nil", "custom", "id"}, objMapper : {"nil", "custom"},
     relName : {Empty, Str("read")}, relMapper : {"nil", "custom"},
     subjType : {Empty, Str("group")}]

CheckRequests ==
    {[params |-> ps, env |-> CheckEnv(a)] :
        ps \in {[v \in {"id"} |-> Str("42")], [v \in {"slug"} |-> Str("s")]},
        a \in {Empty, Str("bob")}}

InitCheck ==
    /\ MwIdle
    /\ IdleExceptCheck
    /\ check \in
         {[pkg |-> p, opts |-> o, request |-> rq,
           identity |-> FromHeader(b, <<"Authorization">>)] :
              p \in CheckPkgs, o \in CheckOptionSets, rq \in CheckRequests,
              b \in {BuilderSubject(NewBuilder), BuilderManual(NewBuilder)}}
    /\ isRequest = NoIsRequest

\* Check.Handler up to the call of the authorizer: the policy path is
\* "check" for a policy without path and root.
CheckHandler ==
    /\ isRequest = NoIsRequest
    /\ isRequest' = [identity |-> identityContext(check),
                     path     |-> CheckPath,
                     resource |-> checkResourceContext(check)]
    /\ UNCHANGED <<mwVars, check, exceptCheck>>

NextCheck == CheckHandler

SpecCheck == InitCheck /\ [][NextCheck]_vars

\* ------------------------------------------------------ the connection cache

\* The longest series of Get calls on one cache.
MaxGets == 4

\* A nil *Config, a nil connection.
NilConfig == [isNil |-> TRUE]
NilConn == 0

NewConfig(address, tenant, insecure, noTLS) ==
    [isNil |-> FALSE, Address |-> address, TenantID |-> tenant,
     Insecure |-> insecure, NoTLS |-> noTLS]

\* The configurations given to the cache: two with the same address, one of
\* them with a tenant, and one whose options are mutually exclusive.
Configs ==
    {NewConfig("localhost:8282", "", FALSE, FALSE),
     NewConfig("localhost:8282", "foobar", FALSE, FALSE),
     NewConfig("localhost:9292", "", TRUE, TRUE)}

\* hs.Hash(cfg, hs.FormatV2, nil): the hash of the fields of the
\* configuration, equal for configurations with equal fields.
Hash(cfg) == <<cfg.Address, cfg.TenantID, cfg.Insecure, cfg.NoTLS>>

\* Config.ToConnectionOptions succeeds.
ToConnectionOptionsOk(cfg) == ~(cfg.Insecure /\ cfg.NoTLS)

\* A variant of the lookup that never finds a connection.
LookupMiss(m, hash) == NilConn

\* cb.conns[hash]: nil for a hash the map does not hold.
Lookup(m, hash) == IF hash \in DOMAIN m THEN m[hash] ELSE NilConn

\* cb.conns[hash] = conn
Store(m, hash, conn) ==
    [h \in DOMAIN m \cup {hash} |-> IF h = hash THEN conn ELSE m[h]]

\* Connections.AsSlice
AsSlice(m) == {m[h] : h \in DOMAIN m}

\* A finished call of Get: what it was given, what it returned, and whether
\* it called Connect.
Returned(cfg, conn, err, dialed) ==
    [pc |-> "done", cfg |-> cfg, conn |-> conn, err |-> err, dialed |-> dialed]

InitConns ==
    /\ MwIdle
    /\ IdleExceptConns
    /\ ConnsIdle

\* Connections.Get(cfg), called on its own; Connect answers with a new
\* connection or with an error.
Get ==
    /\ Len(calls) < MaxGets
    /\ \E cfg \in Configs \cup {NilConfig}, connected \in BOOLEAN :
          IF cfg.isNil
          THEN /\ calls' = Append(calls, Returned(cfg, NilConn, FALSE, FALSE))
               /\ UNCHANGED <<conns, count, open>>
          ELSE IF Lookup(conns, Hash(cfg)) # NilConn
          THEN /\ calls' = Append(calls, Returned(cfg, Lookup(conns, Hash(cfg)), FALSE, FALSE))
               /\ UNCHANGED <<conns, count, open>>
          ELSE IF ~ToConnectionOptionsOk(cfg)
          THEN /\ calls' = Append(calls, Returned(cfg, NilConn, TRUE, FALSE))
               /\ UNCHANGED <<conns, count, open>>
          ELSE /\ count' = count + 1
               /\ IF connected
                  THEN /\ open' = open \cup {count + 1}
                       /\ conns' = Store(conns, Hash(cfg), count + 1)
                       /\ calls' = Append(calls, Returned(cfg, count + 1, FALSE, TRUE))
                  ELSE /\ calls' = Append(calls, Returned(cfg, NilConn, TRUE, TRUE))
                       /\ UNCHANGED <<conns, open>>
    /\ UNCHANGED <<mwVars, dsClient, exceptConns>>

NextConns == Get

SpecConns == InitConns /\ [][NextConns]_vars

\* ----------------------------------------- the connection cache, shared

\* The goroutines calling Get on one cache.
NGetters == 2

Getters == 1..NGetters

\* The configurations with valid options.
ValidConfigs == {cfg \in Configs : ToConnectionOptionsOk(cfg)}

\* A call of Get at its first statement.
Started(cfg) ==
    [pc |-> "start", cfg |-> cfg, conn |-> NilConn, err |-> FALSE, dialed |-> FALSE]

\* The runtime ended the program: "fatal error: concurrent map writes" or
\* "concurrent map read and map write".
Crashed == \E p \in DOMAIN calls : calls[p].pc = "fatal"

\* Another goroutine is inside the assignment to the map.
OtherStoring(p) == \E q \in DOMAIN calls : q # p /\ calls[q].pc = "storing"

InitConnsConc ==
    /\ MwIdle
    /\ IdleExceptConns
    /\ conns = NoConns
    /\ count = 0
    /\ open = {}
    /\ calls \in [Getters -> {Started(cfg) : cfg \in ValidConfigs}]
    /\ dsClient = NoClient

\* conn := cb.conns[hash]. The map has no lock: a read while another
\* goroutine writes is a data race, which the runtime answers with a fatal
\* error or lets through, the read then seeing the map before or after
\* the write.
GetLookup(p) ==
    /\ ~Crashed
    /\ calls[p].pc = "start"
    /\ LET hash == Hash(calls[p].cfg)
           seen == {Lookup(conns, hash)} \cup
                   {calls[q].conn : q \in {g \in DOMAIN calls :
                        g # p /\ calls[g].pc = "storing" /\ Hash(calls[g].cfg) = hash}}
       IN  \/ /\ OtherStoring(p)
              /\ calls' = [calls EXCEPT ![p].pc = "fatal"]
           \/ \E conn \in seen :
                 calls' = [calls EXCEPT ![p].conn = conn,
                                        ![p].pc = IF conn = NilConn THEN "connect" ELSE "done"]
    /\ UNCHANGED <<mwVars, conns, count, open, dsClient, exceptConns>>

\* conn, err = cb.Connect(opts...)
GetConnect(p) ==
    /\ ~Crashed
    /\ calls[p].pc = "connect"
    /\ count' = count + 1
    /\ \E connected \in BOOLEAN :
          IF connected
          THEN /\ open' = open \cup {count + 1}
               /\ calls' = [calls EXCEPT ![p].conn = count + 1, ![p].dialed = TRUE,
                                         ![p].pc = "store"]
          ELSE /\ calls' = [calls EXCEPT ![p].err = TRUE, ![p].dialed = TRUE,
                                         ![p].pc = "done"]
               /\ UNCHANGED open
    /\ UNCHANGED <<mwVars, conns, dsClient, exceptConns>>

\* cb.conns[hash] = conn begins: a write while another goroutine writes is
\* a data race, answered with a fatal error or let through.
GetStoreBegin(p) ==
    /\ ~Crashed
    /\ calls[p].pc = "store"
    /\ \/ /\ OtherStoring(p)
          /\ calls' = [calls EXCEPT ![p].pc = "fatal"]
       \/ calls' = [calls EXCEPT ![p].pc = "storing"]
    /\ UNCHANGED <<mwVars, conns, count, open, dsClient, exceptConns>>

\* cb.conns[hash] = conn ends, and Get returns.
GetStoreEnd(p) ==
    /\ ~Crashed
    /\ calls[p].pc = "storing"
    /\ conns' = Store(conns, Hash(calls[p].cfg), calls[p].conn)
    /\ calls' = [calls EXCEPT ![p].pc = "done"]
    /\ UNCHANGED <<mwVars, count, open, dsClient, exceptConns>>

NextConnsConc ==
    \E p \in Getters :
       \/ GetLookup(p)
       \/ GetConnect(p)
       \/ GetStoreBegin(p)
       \/ GetStoreEnd(p)

SpecConnsConc == InitConnsConc /\ [][NextConnsConc]_vars

\* ------------------------------------------------------ directory connect

\* The sub-clients in the order connect obtains their connections.
SubClients == <<"Reader", "Writer", "Importer", "Exporter", "Model">>

ConfigA == NewConfig("localhost:8282", "", FALSE, FALSE)
ConfigB == NewConfig("localhost:8282", "foobar", FALSE, FALSE)
ConfigBad == NewConfig("localhost:9292", "", TRUE, TRUE)

\* The directory configurations given to connect.
DsConfigs ==
    [Config : {NilConfig, ConfigA}, Reader : {NilConfig, ConfigA, ConfigB},
     Writer : {NilConfig, ConfigB, ConfigBad}, Importer : {NilConfig},
     Exporter : {NilConfig, ConfigBad}, Model : {NilConfig, ConfigB}]

\* Config.Validate: at least one of the base, reader, writer, importer and
\* exporter configurations is not nil.
Validate(cfg) ==
    ~(\A f \in {"Config", "Reader", "Writer", "Importer", "Exporter"} : cfg[f].isNil)

\* getConnection: the configuration Get is called with, the sub-client's
\* own or else the base one; nil when both are nil.
getConnection(cfg, fallback) == IF ~cfg.isNil THEN cfg ELSE fallback

InitConnect ==
    /\ MwIdle
    /\ IdleExceptConns
    /\ conns = NoConns
    /\ count = 0
    /\ open = {}
    /\ calls = << >>
    /\ dsClient \in {[status |-> "new", cfg |-> c, at |-> 1, conns |-> {}] : c \in DsConfigs}

\* connect: cfg.Validate()
ConnectValidate ==
    /\ dsClient.status = "new"
    /\ dsClient' = [dsClient EXCEPT !.status =
                        IF Validate(dsClient.cfg) THEN "connecting" ELSE "failed"]
    /\ UNCHANGED <<mwVars, conns, count, open, calls, exceptConns>>

\* connect: getConnection for the next sub-client; an error ends connect at
\* once with the error wrapped.
ConnectSubClient ==
    /\ dsClient.status = "connecting"
    /\ dsClient.at <= Len(SubClients)
    /\ LET cfg == getConnection(dsClient.cfg[SubClients[dsClient.at]], dsClient.cfg.Config)
           next == [dsClient EXCEPT !.at = dsClient.at + 1]
           failed == [dsClient EXCEPT !.status = "failed"]
       IN  IF cfg.isNil \/ Lookup(conns, Hash(cfg)) # NilConn
           THEN /\ dsClient' = next
                /\ UNCHANGED <<conns, count, open>>
           ELSE IF ~ToConnectionOptionsOk(cfg)
           THEN /\ dsClient' = failed
                /\ UNCHANGED <<conns, count, open>>
           ELSE /\ count' = count + 1
                /\ \E connected \in BOOLEAN :
                      IF connected
                      THEN /\ open' = open \cup {count + 1}
                           /\ conns' = Store(conns, Hash(cfg), count + 1)
                           /\ dsClient' = next
                      ELSE /\ dsClient' = failed
                           /\ UNCHANGED <<conns, open>>
    /\ UNCHANGED <<mwVars, calls, exceptConns>>

\* connect returns the Client with conns: conns.AsSlice().
ConnectReturn ==
    /\ dsClient.status = "connecting"
    /\ dsClient.at > Len(SubClients)
    /\ dsClient' = [dsClient EXCEPT !.status = "connected", !.conns = AsSlice(conns)]
    /\ UNCHANGED <<mwVars, conns, count, open, calls, exceptConns>>

\* Client.Close
ClientClose ==
    /\ dsClient.status = "connected"
    /\ open' = open \ dsClient.conns
    /\ dsClient' = [dsClient EXCEPT !.status = "closed"]
    /\ UNCHANGED <<mwVars, conns, count, calls, exceptConns>>

NextConnect ==
    \/ ConnectValidate
    \/ ConnectSubClient
    \/ ConnectReturn
    \/ ClientClose

SpecConnect == InitConnect /\ [][NextConnect]_vars

\* ------------------------------------------------ the REST authorizer client

NilError == "nil"

\* What a function returning (value, error) hands back; a nil pointer
\* dereference ends the call with a panic instead.
Ret(value, err) == [returned |-> TRUE, panicked |-> FALSE, value |-> value, err |-> err]
Panic == [returned |-> TRUE, panicked |-> TRUE, value |-> "nil", err |-> NilError]

\* authorizer.addAuthenticationHeader: the error of Creds.GetRequestMetadata.
addAuthenticationHeader(c) == IF c.creds = "failing" THEN "credentials" ELSE NilError

\* authorizer.addRequestHeaders
addRequestHeaders(c) == IF c.creds # "none" THEN addAuthenticationHeader(c) ELSE NilError

\* authorizer.postRequest: when addRequestHeaders fails it returns the err
\* of http.NewRequestWithContext, which is nil at that point.
postRequest(c) ==
    IF ~c.marshals THEN Ret("nil", "marshal")
    ELSE IF ~c.urlValid THEN Ret("nil", "request")
    ELSE IF addRequestHeaders(c) # NilError THEN Ret("nil", NilError)
    ELSE IF c.http = "unreachable" THEN Ret("nil", "transport")
    ELSE IF c.http # "200" THEN Ret("nil", "ErrHTTP")
    ELSE Ret("response", NilError)

\* authorizer.postAPIRequest: resp.Body of a nil resp is a nil pointer
\* dereference.
postAPIRequest(c) ==
    IF c.opts > 0 THEN Ret("nil", "ErrNotSupported")
    ELSE LET r == postRequest(c)
         IN  IF r.err # NilError THEN Ret("nil", r.err)
             ELSE IF r.value = "nil" THEN Panic
             ELSE IF c.bodyReads THEN Ret("body", NilError)
             ELSE Ret("nil", "read")

\* authorizer.Is
IsCall(c) ==
    LET r == postAPIRequest(c)
    IN  IF r.panicked THEN Panic
        ELSE IF r.err # NilError THEN Ret("nil", r.err)
        ELSE IF ~c.bodyIsJSON THEN Ret("nil", "unmarshal")
        ELSE Ret("response", NilError)

ApiCalls ==
    [endpoint : {"is"}, opts : {0, 1}, creds : {"none", "valid", "failing"},
     marshals : BOOLEAN, urlValid : BOOLEAN, http : {"unreachable", "200", "403"},
     bodyReads : BOOLEAN, bodyIsJSON : BOOLEAN]

InitRest ==
    /\ MwIdle
    /\ IdleExceptRest
    /\ apiCall \in ApiCalls
    /\ apiResult = NoApiResult

\* The client's Is is called and returns or panics.
Is ==
    /\ apiResult = NoApiResult
    /\ apiResult' = IsCall(apiCall)
    /\ UNCHANGED <<mwVars, apiCall, exceptRest>>

NextRest == Is

SpecRest == InitRest /\ [][NextRest]_vars

Done(r) == req[r].pc = "done"

\* The handler of request r was invoked.
Invoked(r) == req[r].handlerCalls > 0

\* The middleware of request r as it was when r resolved its policy path.
MwOf(r) == [mw EXCEPT !.policyContextPath = IF Legacy THEN req[r].own ELSE @]

\* The backend answered r without error and the decision read is allow: the
\* only decision in the HTTP middlewares, the first one in the gRPC ones.
AllowObtained(r) ==
    /\ req[r].hasResp
    /\ ~req[r].resp.err
    /\ Len(req[r].resp.decisions) >= 1
    /\ req[r].resp.decisions[1]
    /\ mw.flavour \in HttpFlavours => Len(req[r].resp.decisions) = 1

\* The backend answered r with a deny, or r met an error: in resolution, from
\* the backend, or a response the middleware rejects as invalid.
DenyOrError(r) ==
    \/ req[r].outcome \in {"forbidden", "error"}
    \/ req[r].hasResp /\ req[r].resp.err
    \/ req[r].hasResp /\ Len(req[r].resp.decisions) >= 1 /\ ~req[r].resp.decisions[1]

\* C1, as stated: the downstream handler is invoked if and only if an
\* explicit allow decision was obtained from the backend for the request; on
\* a deny decision or on any error it is never invoked.
C1_HandlerIffAllow ==
    \A r \in active :
        /\ Invoked(r) => AllowObtained(r)
        /\ Done(r) /\ req[r].hasResp /\ req[r].resp = [err |-> FALSE, decisions |-> <<TRUE>>]
              => Invoked(r)
        /\ DenyOrError(r) => ~Invoked(r)

\* C1, amended: the downstream handler is invoked only if the request was
\* bypassed (allowed method, ignored path, filter) or the backend answered
\* without error and the decision read is allow; it is invoked whenever the
\* backend returns exactly one decision and that decision is allow; on a
\* deny decision or on any error it is never invoked.
C1_HandlerIffAllowOrBypass ==
    \A r \in active :
        /\ Invoked(r) => req[r].bypass # "none" \/ AllowObtained(r)
        /\ req[r].bypass # "none" /\ req[r].pc \in {"handling", "done"}
              => Invoked(r) /\ req[r].sent = << >>
        /\ Done(r) /\ req[r].hasResp /\ req[r].resp = [err |-> FALSE, decisions |-> <<TRUE>>]
              => Invoked(r) /\ req[r].handlerCalls = 1
        /\ DenyOrError(r) => ~Invoked(r)

\* A request answered with the single decision allow reached its handler.
C1_Witness ==
    \E r \in active :
        /\ Done(r)
        /\ req[r].bypass = "none"
        /\ req[r].resp = [err |-> FALSE, decisions |-> <<TRUE>>]
        /\ req[r].hasResp
        /\ req[r].handlerCalls = 1

\* C2: in the gRPC interceptors (grpcz Middleware and RebacMiddleware) a
\* response returned without error that holds zero or more than one decision
\* is an invalid-decision error: the request ends with ErrInvalidDecision,
\* its handler is not invoked and it is not answered ErrAuthorizationFailed.
C2_InvalidDecision ==
    \A r \in active :
        (/\ mw.flavour \in {"grpcz", "rebac"}
         /\ req[r].hasResp
         /\ ~req[r].resp.err
         /\ Len(req[r].resp.decisions) # 1)
        => /\ req[r].outcome = "error"
           /\ req[r].err = "ErrInvalidDecision"
           /\ ~Invoked(r)

\* C3: each backend query carries the policy path resolved from its own
\* request, also when two requests with different policy paths are handled
\* concurrently by the same middleware.
C3_OwnPolicyPath ==
    \A r \in active :
        \A i \in 1..Len(req[r].sent) : req[r].sent[i].path = req[r].own

\* C4: resolution has no hidden mutable state.  Building the identity twice
\* for the same request on the same builder gives the same identity; Build
\* leaves the builder as it was configured; and the identity built for a
\* request is the one the configured builder gives for that request alone.
C4_NoHiddenState ==
    /\ \A i, j \in 1..Len(built) :
           built[i].env = built[j].env => built[i].ctx = built[j].ctx
    /\ \A i \in 1..Len(built) : built[i].b = ib
    /\ \A i \in 1..Len(built) :
           built[i].ctx = Build(pkg, built[1].b, built[i].env).ctx

\* C5: every request ends in exactly one of downstream-invoked, forbidden
\* response sent, error response sent; none ends in a crash.
C5_TerminalState ==
    \A r \in active :
        Done(r) =>
            /\ req[r].outcome \in {"next", "forbidden", "error"}
            /\ req[r].outcome = "next" <=> Invoked(r)

\* The events of resolution, and those every query of a middleware needs.
ResolutionEvents == {"path", "resource", "identity", "object", "subject", "relation"}

Required(flavour) ==
    IF flavour = "check" THEN {"object", "subject", "relation"}
    ELSE {"path", "resource", "identity"}

EndEvents == {"next", "forbidden", "error"}

\* C6: within a request, resolution of identity, policy path and resource
\* completes before the backend call is issued, and the call completes
\* before the handler runs or a rejection is written.
C6_ResolveCallAct ==
    \A r \in active :
        LET ev == req[r].events
        IN  /\ \A i \in 1..Len(ev) :
                  ev[i] = "call" =>
                      /\ Required(mw.flavour) \subseteq {ev[j] : j \in 1..(i - 1)}
                      /\ \A j \in (i + 1)..Len(ev) : ev[j] \notin ResolutionEvents
                      /\ \A j \in 1..(i - 1) : ev[j] \notin EndEvents \cup {"response"}
            /\ \A j \in 1..Len(ev) :
                  (ev[j] \in EndEvents /\ req[r].sent # << >>) =>
                      \E i, k \in 1..(j - 1) :
                          i < k /\ ev[i] = "call" /\ ev[k] = "response"
            /\ req[r].sent # << >> => \E i \in 1..Len(ev) : ev[i] = "call"
            /\ (Invoked(r) /\ req[r].bypass = "none") => req[r].hasResp
            /\ req[r].outcome = "forbidden" => req[r].hasResp

\* A request went through resolution, call and answer to its handler.
C6_Witness ==
    \E r \in active :
        /\ Done(r)
        /\ req[r].events = <<"path", "resource", "identity", "call", "response", "next">>

\* How many events of a request are e.
RECURSIVE Count(_, _)
Count(ev, e) ==
    IF ev = << >> THEN 0
    ELSE (IF Head(ev) = e THEN 1 ELSE 0) + Count(Tail(ev), e)

\* C7: for a gRPC server stream, resolution and the backend decision happen
\* once, before the stream handler is invoked and not once per message; on a
\* deny or an error the stream handler is never invoked and no message is
\* exchanged.
C7_StreamOnce ==
    \A r \in active :
        req[r].t.kind = "stream" =>
            LET ev == req[r].events
            IN  /\ Len(req[r].sent) <= 1
                /\ Count(ev, "call") <= 1
                /\ \A e \in ResolutionEvents : Count(ev, e) <= 1
                /\ (Invoked(r) /\ req[r].bypass = "none") =>
                       /\ Len(req[r].sent) = 1
                       /\ AllowObtained(r)
                /\ \A i \in 1..Len(ev) :
                       ev[i] \in {"next", "msg"} =>
                           \A j \in (i + 1)..Len(ev) :
                               ev[j] \notin ResolutionEvents \cup {"call", "response"}
                /\ req[r].msgs > 0 => req[r].handlerCalls = 1
                /\ req[r].handlerCalls <= 1
                /\ DenyOrError(r) \/ req[r].outcome = "panic" =>
                       ~Invoked(r) /\ req[r].msgs = 0

\* A stream was authorized with one query and its handler then received a
\* message.
C7_Witness ==
    \E r \in active :
        /\ req[r].t.kind = "stream"
        /\ Len(req[r].sent) = 1
        /\ req[r].handlerCalls = 1
        /\ req[r].msgs = MaxMsgs

\* C8: a gRPC call whose full method string was given to WithAllowedMethods
\* never triggers a backend call and is passed to its handler, whatever the
\* identity, policy path and resource configuration of the middleware.
C8_AllowedMethod ==
    \A r \in active :
        (/\ mw.flavour \in {"grpcz", "rebac"}
         /\ req[r].t.method \in mw.allowedMethods)
        => /\ req[r].sent = << >>
           /\ ~req[r].hasResp
           /\ req[r].pc \notin {"idle", "started"} =>
                  /\ Invoked(r)
                  /\ req[r].outcome = "next"
                  /\ req[r].bypass = "allowed"

\* An allowed method reached its handler in a middleware whose resource
\* mapper would have failed on the request.
C8_Witness ==
    \E r \in active :
        /\ mw.flavour \in {"grpcz", "rebac"}
        /\ req[r].t.method \in mw.allowedMethods
        /\ mw.resourceMappers # << >>
        /\ resourceContext(mw, req[r].t).status # "ok"
        /\ Done(r)
        /\ Invoked(r)

\* Request r is past the code that precedes the backend call.
PastResolve(r) == req[r].pc \in {"resolved", "called", "handling", "done"}

\* Request r was allowed without a backend call.
Bypassed(r) == req[r].sent = << >> /\ ~req[r].hasResp /\ Invoked(r)

C10_OneQuery ==
    \A r \in active :
        /\ Len(req[r].sent) <= 1
        /\ Count(req[r].events, "call") = Len(req[r].sent)
        /\ (req[r].pc \in {"called", "handling", "done"}
            /\ Resolution(MwOf(r), req[r].t, EnvOf(r)).stop = "none")
           => Len(req[r].sent) = 1
        /\ (req[r].hasResp /\ req[r].resp.err)
           => Done(r) /\ Len(req[r].sent) = 1 /\ req[r].outcome = "error"

\* A request whose query the backend answered with an error has ended with
\* that one query sent.
C10_Witness ==
    \E r \in active :
        /\ Done(r)
        /\ req[r].hasResp
        /\ req[r].resp.err
        /\ Len(req[r].sent) = 1

C12_BadFieldMaskRejected ==
    \A r \in active :
        (/\ mw.flavour = "grpcz"
         /\ \E i \in 1..Len(mw.resourceMappers) :
                /\ mw.resourceMappers[i] \in {"fields", "badfields"}
                /\ Select(FieldPaths(mw.resourceMappers[i])).err
         /\ req[r].t.msg = "proto"
         /\ ~isAllowedMethod(mw, req[r].t)
         /\ resolvePath(mw, req[r].t) \notin mw.ignoredPaths
         /\ PastResolve(r))
        => /\ req[r].sent = << >>
           /\ Done(r)
           /\ req[r].outcome = "error"

\* The object type and the object ID the ReBAC check of request r resolves
\* to; RebacMiddleware takes the object ID from its resource mappers.
ObjectOf(r) ==
    IF mw.flavour = "check" THEN [type |-> mw.objType, id |-> mw.objID]
    ELSE LET acc == applyMappers(mw.resourceMappers, req[r].t,
                                 [status |-> "ok", res |-> EmptyMap])
         IN  [type |-> mw.objType,
              id   |-> IF acc.status = "ok" /\ "object_id" \in DOMAIN acc.res
                       THEN acc.res["object_id"] ELSE Empty]

\* Request r of a ReBAC middleware reached the resolution of its object:
\* it was neither bypassed nor stopped by a failing resource mapper.
ObjectResolved(r) ==
    /\ mw.flavour \in {"check", "rebac"}
    /\ PastResolve(r)
    /\ mw.flavour = "check" =>
           ~\E i \in 1..Len(mw.filters) : FilterMatches(mw.filters[i], req[r].t, EnvOf(r))
    /\ mw.flavour = "rebac" =>
           /\ ~isAllowedMethod(mw, req[r].t)
           /\ permissionFromMethod(req[r].t) \notin mw.ignoredPaths
           /\ rebacResourceContext(mw, req[r].t).status = "ok"

\* C13: in the ReBAC check, when the object type or the object ID resolves
\* to the empty string the check fails with the local error "object type is
\* empty" / "object ID is empty" and no backend call is made.
C13_EmptyObjectFailsFast ==
    \A r \in active :
        (/\ ObjectResolved(r)
         /\ ObjectOf(r).type = Empty \/ ObjectOf(r).id = Empty)
        => /\ req[r].sent = << >>
           /\ Done(r)
           /\ req[r].outcome = "error"
           /\ req[r].err \in {"object type is empty", "object ID is empty"}

\* Request r of the ReBAC check middleware has the backend's answer.
CheckAnswered(r) == mw.flavour = "check" /\ req[r].hasResp

\* C14 (as stated): in the ReBAC check, a failed relation-check call and an
\* answer with check = false both end in ErrAuthorizationFailed.
C14_SameFailure ==
    \A r \in active :
        (CheckAnswered(r) /\ (req[r].resp.err \/ ~req[r].resp.decisions[1]))
        => req[r].err = "ErrAuthorizationFailed"

\* C14 (amended): in the ReBAC check, a failed relation-check call and an
\* answer with check = false both keep the handler from running and return
\* an error, but not the same one: check = false returns
\* ErrAuthorizationFailed, a failed call returns the call's own error.
C14_FailureKinds ==
    \A r \in active :
        CheckAnswered(r) =>
            /\ req[r].resp.err =>
                   /\ req[r].outcome = "error"
                   /\ req[r].err = "backend"
                   /\ req[r].handlerCalls = 0
            /\ (~req[r].resp.err /\ ~req[r].resp.decisions[1]) =>
                   /\ req[r].outcome = "forbidden"
                   /\ req[r].err = "ErrAuthorizationFailed"
                   /\ req[r].handlerCalls = 0

C14_Witness ==
    \E r \in active : CheckAnswered(r) /\ req[r].resp.err /\ Done(r)

\* Some registered filter of the check middleware matches request r.
FilterMatched(r) ==
    /\ mw.flavour = "check"
    /\ \E i \in 1..Len(mw.filters) : FilterMatches(mw.filters[i], req[r].t, EnvOf(r))

\* C15: in the ReBAC check middleware, a request that a registered filter
\* (method list, context-value list or custom predicate) matches is treated
\* as allowed and no backend call is made for it.
C15_FilterBypass ==
    \A r \in active :
        (FilterMatched(r) /\ PastResolve(r))
        => /\ req[r].sent = << >>
           /\ ~req[r].hasResp
           /\ req[r].bypass = "filter"
           /\ Invoked(r)
           /\ req[r].outcome \notin {"error", "forbidden"}

C15_Witness ==
    \E r \in active :
        /\ FilterMatched(r)
        /\ Done(r)
        /\ mw.filters[1].kind = "ctxValue"
        /\ mw.objID = Empty

\* C16: the backend call carries the cancellation of the inbound request:
\* when the request is cancelled or times out while the call is pending,
\* the call is cancelled too and the request ends with an error, the
\* handler not invoked, whether or not the backend ever answers.
C16_CancelEndsCall ==
    \A r \in Reqs :
        (req[r].cancelled /\ req[r].pc = "called")
        ~> (Done(r) /\ req[r].outcome = "error" /\ ~Invoked(r))

\* C17: whatever the configuration calls made on the builder and whatever
\* the request, a built identity of kind NONE has the empty value.
C17_NoneHasNoValue ==
    \A i \in 1..Len(built) :
        built[i].ctx.type = "NONE" => built[i].ctx.identity = Empty

\* C18: right after None() is called on a builder, the identity it builds
\* is {NONE, ""} for every request, whatever kind, static ID or source was
\* configured on the builder before.
C18_NoneLast ==
    [][IbNone => \A env \in Envs : Build(pkg, ib', env).ctx = IdentityNone(0)]_vars

\* The value a header gives the identity: the Authorization header goes
\* through fromAuthzHeader, any other header is taken as it is.
HeaderValue(b, h, v) == IF IsAuthorizationHeader(h) THEN fromAuthzHeader(b, v) ELSE v

\* C19: with FromHeader(h1, h2, ...), a request that carries none of the
\* configured headers builds {NONE, ""}; otherwise the first configured
\* header that is present and non-empty determines the value.
C19_FirstHeader ==
    \A i \in 1..Len(built) :
        LET b  == built[i].b
            hs == b.mapper.headers
            hd == built[i].env.header
        IN  b.mapper.kind = "header" =>
                /\ (\A k \in 1..Len(hs) : hd[hs[k]] = Empty) =>
                       built[i].ctx = [type |-> "NONE", identity |-> Empty]
                /\ \A k \in 1..Len(hs) :
                       (hd[hs[k]] # Empty /\ \A j \in 1..(k - 1) : hd[hs[j]] = Empty)
                       => built[i].ctx.identity = HeaderValue(b, hs[k], hd[hs[k]])

C19_Witness ==
    \E i \in 1..Len(built) :
        /\ built[i].b.mapper.kind = "header"
        /\ built[i].b.mapper.headers = <<"X-User", "Authorization">>
        /\ built[i].env.header["X-User"] # Empty
        /\ built[i].env.header["Authorization"] # Empty
        /\ built[i].ctx.identity = Str("xu")
        /\ \E j \in 1..Len(built) :
               /\ built[j].b.mapper.kind = "header"
               /\ \A h \in HeaderNames : built[j].env.header[h] = Empty

\* C20 (as stated): when a callback is set with Mapper, the built identity
\* is the one the callback alone gives: the kind and the static ID
\* configured on the same builder have no effect on it.
C20_MapperAlone ==
    \A i \in 1..Len(built) :
        built[i].b.mapper.kind = "custom" =>
            built[i].ctx =
                Build(pkg, [NewBuilder EXCEPT !.mapper = built[i].b.mapper], built[i].env).ctx

\* C20 (amended): when a callback is set with Mapper, no declared source
\* applies and the callback is called on an identity that holds the kind and
\* the static ID of the builder: the built identity is what the callback
\* leaves of them, anonymous when the value is left empty.
C20_MapperOnDeclared ==
    \A i \in 1..Len(built) :
        LET b   == built[i].b
            cb  == b.mapper.callback
            out == [type     |-> IF cb = "manualID" THEN "MANUAL" ELSE b.identityType,
                    identity |-> IF cb = "nothing" THEN b.defaultIdentity ELSE Str("mapped")]
        IN  b.mapper.kind = "custom" =>
                built[i].ctx = IF out.identity = Empty
                               THEN [type |-> "NONE", identity |-> Empty]
                               ELSE out

C20_Witness ==
    \E i \in 1..Len(built) :
        /\ built[i].b.mapper.kind = "custom"
        /\ built[i].b.mapper.callback = "ID"
        /\ built[i].b.identityType = "JWT"
        /\ built[i].b.defaultIdentity = Str("static")
        /\ built[i].ctx = [type |-> "JWT", identity |-> Str("mapped")]

\* The source configured on builder b holds no value in the request env:
\* header absent, metadata or its key missing, context value missing or not
\* a string, hostname segment out of range.
Unretrievable(b, env) ==
    CASE b.mapper.kind = "header" ->
             \A k \in 1..Len(b.mapper.headers) : env.header[b.mapper.headers[k]] = Empty
      [] b.mapper.kind = "metadata" ->
             ~env.hasMd \/ env.md[b.mapper.headers[1]] = << >>
      [] b.mapper.kind = "ctx" -> ~(env.ctxValue.present /\ env.ctxValue.isString)
      [] b.mapper.kind = "hostname" ->
             HostnameSegment(env.host, b.mapper.segment) = Empty
      [] OTHER -> FALSE

\* C21: in every configuration of the builder, a request whose configured
\* source holds no value is built as the anonymous identity {NONE, ""}.
C21_UnretrievableIsAnonymous ==
    \A i \in 1..Len(built) :
        Unretrievable(built[i].b, built[i].env)
        => built[i].ctx = [type |-> "NONE", identity |-> Empty]

\* The route has a path parameter and its policy path has been computed.
Templated == route.params > 0 /\ policyPath # Unset

\* C22: in every HTTP router with path parameters, a request matched by the
\* route "/products/{id}" (in the router's placeholder syntax) with method
\* POST and prefix "myapp" resolves to the policy path
\* "myapp.POST.products.__id"; each placeholder segment is replaced by "__"
\* followed by the parameter's name.
C22_TemplatedPath ==
    Templated =>
        policyPath = (IF route.prefix = Empty THEN Empty ELSE <<MyApp, ".">>)
                     \o route.method \o <<".", Products, ".", "__", "id">>

\* C23: URL templating discards the empty leading and trailing segments of
\* the path: no segment of the resolved policy path is empty, and for the
\* path "/" the policy path is [prefix.]METHOD with no trailing dot.
C23_NoEmptySegment ==
    policyPath # Unset =>
        /\ \A seg \in {Split(policyPath, ".")[i] : i \in 1..Len(Split(policyPath, "."))} :
               seg # Empty
        /\ route.path = <<"/">> =>
               policyPath = (IF route.prefix = Empty THEN Empty ELSE <<MyApp, ".">>)
                            \o route.method

\* C24: WithNoResourceContext replaces the whole list of resource mappers:
\* right after the call the resource context built for a request is empty,
\* whatever mappers, the default one included, were registered before.
C24_NoResourceContext ==
    [][ChainWithNoResourceContext => chainResource(rc').fields = EmptyMap]_vars

\* A request with a path parameter was served after WithNoResourceContext
\* was called on a middleware and no mapper was registered since.
C24_Witness ==
    /\ rc.params > 0
    /\ rc.mappers \in {<<"noop">>, <<"nil">>}
    /\ resourceSent.sent
    /\ resourceSent.fields = EmptyMap

\* C25: with neither a relation name nor a relation mapper configured, the
\* relation is the method path lower-cased with "/" replaced by ".", cut so
\* that the relation sent never exceeds 64 characters.
C25_RelationAtMost64 ==
    relation # Unset =>
        /\ Len(relation) <= 64
        /\ LET full == ToLower(ReplaceAll(Trim(rpc.method, "/"), "/", "."))
           IN  relation = SubSeq(full, 1, IF Len(full) < 64 THEN Len(full) ELSE 64)

\* C26 helper: the ReBAC scenario: object type "item", object ID from the
\* path variable id = "42", relation "read", no subject type, no custom
\* mapper, Authorization header "bob".
ScenarioD ==
    /\ check # NoCheck
    /\ check.opts = [objType |-> Str("item"), objID |-> Empty, idMapper |-> "id",
                     objMapper |-> "nil", relName |-> Str("read"),
                     relMapper |-> "nil", subjType |-> Empty]
    /\ "id" \in DOMAIN check.request.params
    /\ check.request.params["id"] = Str("42")
    /\ check.request.env.header["Authorization"] = Str("bob")

\* C26: in the ReBAC scenario the request sent carries exactly object type
\* "item", object ID "42", relation "read", subject type "user" as its
\* resource context, and "bob" as the subject, its identity.
C26_ScenarioD ==
    (ScenarioD /\ isRequest # NoIsRequest) =>
        /\ isRequest.resource =
              [k \in {"relation", "object_type", "object_id", "subject_type"} |->
                  CASE k = "relation" -> Str("read")
                    [] k = "object_type" -> Str("item")
                    [] k = "object_id" -> Str("42")
                    [] OTHER -> Str("user")]
        /\ isRequest.identity.identity = Str("bob")

C26_Witness == ScenarioD /\ isRequest # NoIsRequest /\ check.pkg = "humaz"

\* C28 helpers: the configurations requested so far, and whether a call
\* of Get failed.
Requested == {calls[i].cfg : i \in {j \in DOMAIN calls : ~calls[j].cfg.isNil}}
SomeGetFailed == \E i \in DOMAIN calls : calls[i].err

\* C28 (as stated): after any sequential series of Get calls the number of
\* dials equals the number of distinct configurations requested.
C28_DialsEqualConfigs == count = Cardinality(Requested)

\* C28 (amended): a Get with a configuration equal to one already connected
\* returns the cached connection without dialing, a Get with any other
\* configuration with valid options dials once; as long as no Get failed the
\* number of dials equals the number of distinct configurations requested.
C28_CachedOrDialedOnce ==
    /\ \A i \in DOMAIN calls :
          LET c == calls[i]
              before == {calls[j].conn : j \in {k \in 1..(i - 1) :
                            ~calls[k].cfg.isNil /\ calls[k].cfg = c.cfg /\ ~calls[k].err}}
          IN  ~c.cfg.isNil =>
                 /\ before # {} => (~c.dialed /\ ~c.err /\ c.conn \in before)
                 /\ (before = {} /\ ToConnectionOptionsOk(c.cfg)) => c.dialed
    /\ count = Cardinality({i \in DOMAIN calls : calls[i].dialed})
    /\ ~SomeGetFailed => count = Cardinality(Requested)

C28_Witness ==
    /\ Len(calls) = 3
    /\ ~SomeGetFailed
    /\ calls[1].cfg = calls[2].cfg
    /\ calls[3].cfg # calls[1].cfg
    /\ count = 2

C29_FailedConnectLeaksNothing ==
    (dsClient # NoClient /\ dsClient.status = "failed") => open = {}

\* C30: Is returns a non-nil error whenever it produces no response; when
\* the credential headers cannot be obtained the caller gets an error,
\* never a nil response with a nil error and never a panic.
C30_IsReportsFailure ==
    apiResult # NoApiResult =>
        /\ ~apiResult.panicked
        /\ apiResult.value = "nil" => apiResult.err # NilError

====
